---- MODULE Spec2Model ----
(***************************************************************************)
(* Model of the multicall aggregation layer of gibme-npm/web3:             *)
(*   ABI            (src/src/ABI.ts)                                       *)
(*   Contract       (src/unnamed/part_001, second file: Contract.ts)       *)
(*   MulticallProvider (src/src/MulticallProvider.ts)                      *)
(*   ERC20 / ERC721 / ERC777 balanceOfBatch                                *)
(*                                                                         *)
(* The specifications share the variables:                                 *)
(*   Spec         one aggregate() or one retryCall() invocation, stepwise  *)
(*   SpecBuilder  the chainable call builder (call / callMethod / exec)    *)
(*   SpecBatch    balanceOfBatch with and without a multicall provider     *)
(*   SpecRegistry MulticallProvider.create and the address registry        *)
(*   SpecFanOut   the one-call-per-owner path of balanceOfBatch, stepwise  *)
(*   SpecABI      ABI.encode on pairs of parameter lists                   *)
(***************************************************************************)
EXTENDS Integers, Sequences, FiniteSets, TLC

(***************************************************************************)
(* Bounds of the model.                                                    *)
(***************************************************************************)
\* longest call list handed to aggregate() in Spec
MaxCalls == 3
\* largest batch size handed to aggregate() in Spec
MaxBatch == 3
\* most invocations of the wrapped function in one retry chain
MaxAttempts == 3
\* most builder objects alive in SpecBuilder
MaxBuilders == 3
\* longest call chain of a builder in SpecBuilder
MaxChain == 2
\* longest freely chosen owner list in SpecBatch
MaxOwners == 3
\* how far beyond the default batch size the long owner lists of SpecBatch go
MaxExtra == 2
\* most MulticallProvider objects created in SpecRegistry
MaxProviders == 2
\* longest owner list in SpecFanOut
MaxFanOwners == 3
\* longest list of input types in SpecABI
MaxAbiInputs == 2
\* most aggregator requests of one aggregate() invocation
MaxDispatch == 4

(***************************************************************************)
(* Program constants.                                                      *)
(***************************************************************************)
\* MulticallProvider.aggregate: batchSize = 50
DefaultBatchSize == 50
\* Contract.retryCall: await sleep(1)
RetryDelay == 1
\* one slot of ABI-packed data is 32 bytes wide
WordBytes == 32

(***************************************************************************)
(* Sequence helpers with the semantics of the JavaScript array methods.    *)
(***************************************************************************)
Min(a, b) == IF a < b THEN a ELSE b

\* Array.prototype.slice(from, to) for 0 <= from, 0 <= to
Slice(s, from, to) ==
    LET lo == Min(from, Len(s))
        hi == Min(to, Len(s))
    IN  IF hi <= lo THEN << >> ELSE SubSeq(s, lo + 1, hi)

\* Array.prototype.slice(from) for 0 <= from
SliceFrom(s, from) == Slice(s, from, Len(s))

RECURSIVE SumSeq(_)
SumSeq(s) == IF s = << >> THEN 0 ELSE s[1] + SumSeq(Tail(s))

(***************************************************************************)
(* State.                                                                  *)
(***************************************************************************)
VARIABLES
    \* ---- MulticallProvider.aggregate (one invocation) ----
    aggPc,          \* "idle", "awaiting", "done", "failed"
    calls,          \* the ContractCall list handed in
    batchSize,      \* the batch size handed in
    callRequests,   \* requests not yet dispatched
    batch,          \* the batch awaiting its response
    callResult,     \* results pushed so far
    aggError,       \* what aggregate() failed with
    dispatched,     \* the batches handed to retryCall, in order
    sent,           \* the parameter lists the aggregator function was invoked with
    height,         \* chain height
    \* ---- Contract.retryCall (one retry chain) ----
    rcPc,           \* "idle", "pending", "sleeping", "returned", "raised"
    rcFunc,         \* the wrapped function: [isFunction, name]
    rcParams,       \* the parameters of the current retryCall frame
    rcAttempts,     \* the invocations of the wrapped function, in order
    rcValue,        \* what retryCall returned
    rcError,        \* what retryCall raised
    now,            \* time elapsed in the retry chain
    \* ---- chainable builder ----
    builders,       \* the Contract objects created so far: [_callChain, _callMethods]
    lastOp,         \* the last builder operation and its outcome
    \* ---- balanceOfBatch ----
    bbOwners,       \* the owner list
    bbMulti,        \* outcome on a handle with a multicall provider
    bbSingle,       \* outcome on a handle without one
    \* ---- MulticallProvider.create and the registry ----
    multicallAddresses, \* the registry: chain id -> address, NoAddress if no entry
    providers,      \* the MulticallProvider objects created so far
    regLast,        \* the last registry operation and its outcome
    \* ---- balanceOfBatch without a multicall provider, stepwise ----
    fanPc,          \* "idle", "awaiting", "returned", "raised"
    fanOwners,      \* the owner list
    promises,       \* the promises pushed, in order: [owner, state, balance]
    settled,        \* the indices of the promises in the order they settled
    fanResult,      \* what balanceOfBatch returned
    \* ---- ABI.encode ----
    abiIn,          \* [name, inputs, p1, p2]
    abiOut,         \* the two encodings
    \* ---- ERC20 handle: call chain, exec, tokenMetadata ----
    tkExec,         \* the exec() of a chain of calls: input and outcome
    tkMulti,        \* tokenMetadata() on a handle with a multicall provider
    tkSingle,       \* tokenMetadata() on a handle without one
    \* ---- ERC721 handle: holders ----
    hdOwners,       \* the chain: hdOwners[i] owns token id i
    hdMulti,        \* holders() on a handle with a multicall provider
    hdSingle,       \* holders() on a handle without one
    \* ---- the block each consumed aggregate response was evaluated at ----
    evaluatedAt,
    \* ---- Web3Controller.loadContract ----
    loaded,         \* the last loadContract call and the handle it returned
    \* ---- IPFSGatewayHelper.fetch (one invocation) ----
    fetchPc,        \* "idle", "requesting", "sleeping", "returned", "raised"
    fetchGiven,     \* the retries argument of the outermost call
    fetchRetries,   \* the retries variable of the current frame
    fetchStatuses,  \* the status of every response received, in order
    fetchError,     \* what fetch() raised
    fetchNow,       \* seconds slept so far
    \* ---- Web3Controller: connection state and events ----
    wallet,         \* this._wallet: whether a wallet is held
    web3Provider,   \* this._web3Provider: whether a web3 provider is held
    emitted,        \* the events emitted, in order
    ctlLast         \* the last controller operation

(***************************************************************************)
(* Addresses, owners and the fixed on-chain state.                         *)
(***************************************************************************)
\* the contract the handles point at
TokenAddress == 7
\* a second deployed contract
OtherAddress == 8
Owners == {1, 2, 3}
\* balanceOf on-chain: distinct owners hold distinct balances
ChainBalance(target, owner) == IF target = TokenAddress THEN 10 * owner + 1 ELSE 10 * owner + 2
\* the characters of symbol() on-chain
ChainSymbol(target) == IF target = TokenAddress THEN <<5, 6>> ELSE <<6>>
\* the two words of getReserves() on-chain
ChainReserves(target) == IF target = TokenAddress THEN <<0, 4>> ELSE <<32, 9>>
\* name(), decimals() and totalSupply() on-chain
ChainToken(target) ==
    IF target = TokenAddress THEN [name |-> <<7, 8, 9>>, decimals |-> 18, totalSupply |-> 1000]
    ELSE [name |-> <<9>>, decimals |-> 6, totalSupply |-> 21]
\* ownerOf(tokenId) on-chain: the owner word, 0 for a token that is not minted
ChainOwner(tokenId) == IF tokenId \in 1..Len(hdOwners) THEN hdOwners[tokenId] ELSE 0

(***************************************************************************)
(* ethers.utils.ParamType, and typed values.                               *)
(* A value is [kind, w]: a uint256 or an address carries one word, a       *)
(* string carries its characters.                                          *)
(***************************************************************************)
PT(t) == [type |-> t, components |-> << >>]
UintT == PT("uint256")
AddressT == PT("address")
StringT == PT("string")

UintV(n) == [kind |-> "uint256", w |-> <<n>>]
AddressV(a) == [kind |-> "address", w |-> <<a>>]
StringV(cs) == [kind |-> "string", w |-> cs]

IsDynamic(t) == t.type = "string"

(***************************************************************************)
(* ABI.getFunctionSignature: name(t1,...,tn), tuples expanded recursively. *)
(***************************************************************************)
RECURSIVE JoinComma(_)
JoinComma(types) ==
    IF types = << >> THEN ""
    ELSE IF Len(types) = 1 THEN types[1]
    ELSE types[1] \o "," \o JoinComma(Tail(types))

getFunctionSignatureShallow(name, inputs) ==
    LET Flat(cs) == "(" \o JoinComma([i \in 1..Len(cs) |-> cs[i].type]) \o ")"
        TypeOf(input) ==
            IF input.type = "tuple" THEN Flat(input.components)
            ELSE IF input.type = "tuple[]" THEN Flat(input.components) \o "[]"
                 ELSE input.type
    IN  name \o "(" \o JoinComma([i \in 1..Len(inputs) |-> TypeOf(inputs[i])]) \o ")"

RECURSIVE getFunctionSignature(_, _)
getFunctionSignature(name, inputs) ==
    LET TypeOf(input) ==
            IF input.type = "tuple" THEN getFunctionSignature("", input.components)
            ELSE IF input.type = "tuple[]"
                 THEN getFunctionSignature("", input.components) \o "[]"
                 ELSE input.type
    IN  name \o "(" \o JoinComma([i \in 1..Len(inputs) |-> TypeOf(inputs[i])]) \o ")"

\* keccak256(signature).substring(2, 10): the hash is kept symbolic, as an
\* injective function of the signature string
Selector(signature) == <<"keccak256/4", signature>>

(***************************************************************************)
(* ethers AbiCoder.encode / decode on 32-byte slots: static values sit in  *)
(* the head, a dynamic value leaves its byte offset in the head and its    *)
(* length and data (one slot per character) in the tail.                   *)
(***************************************************************************)
ShapeMatches(t, v) == v.kind = t.type /\ (~IsDynamic(t) => Len(v.w) = 1)

TailOf(t, v) == IF IsDynamic(t) THEN <<Len(v.w)>> \o v.w ELSE << >>

RECURSIVE Flatten(_)
Flatten(ss) == IF ss = << >> THEN << >> ELSE ss[1] \o Flatten(Tail(ss))

AbiEncode(types, values) ==
    IF Len(types) # Len(values)
       \/ \E i \in 1..Len(types) : ~ShapeMatches(types[i], values[i])
    THEN [ok |-> FALSE, data |-> << >>]
    ELSE LET n == Len(types)
             tails == [i \in 1..n |-> TailOf(types[i], values[i])]
             before(i) == SumSeq([j \in 1..(i - 1) |-> Len(tails[j])])
             head == [i \in 1..n |->
                        IF IsDynamic(types[i]) THEN WordBytes * (n + before(i))
                        ELSE values[i].w[1]]
         IN  [ok |-> TRUE, data |-> head \o Flatten(tails)]

\* one value of type t whose head slot is slot i of data
DecodeSlot(t, data, i) ==
    IF i > Len(data) THEN [ok |-> FALSE, val |-> UintV(0)]
    ELSE IF ~IsDynamic(t)
    THEN IF t.type \in {"uint256", "uint8", "address"}
         THEN [ok |-> TRUE, val |-> [kind |-> t.type, w |-> <<data[i]>>]]
         ELSE [ok |-> FALSE, val |-> UintV(0)]
    ELSE LET off == data[i]
             p == (off \div WordBytes) + 1
         IN  IF off % WordBytes # 0 \/ p > Len(data)
             THEN [ok |-> FALSE, val |-> UintV(0)]
             ELSE IF p + data[p] > Len(data)
                  THEN [ok |-> FALSE, val |-> UintV(0)]
                  ELSE [ok |-> TRUE,
                        val |-> [kind |-> t.type,
                                 w |-> SubSeq(data, p + 1, p + data[p])]]

\* trailing slots beyond the declared types are tolerated, as ethers does
AbiDecode(types, data) ==
    LET slots == [i \in 1..Len(types) |-> DecodeSlot(types[i], data, i)]
    IN  IF \E i \in 1..Len(types) : ~slots[i].ok
        THEN [ok |-> FALSE, vals |-> << >>]
        ELSE [ok |-> TRUE, vals |-> [i \in 1..Len(types) |-> slots[i].val]]

(***************************************************************************)
(* ABI.encode / ABI.decode                                                 *)
(***************************************************************************)
CallDataSalted(functionData, argument) ==
    [ok |-> argument.ok,
     selector |-> <<functionData[1], functionData[2], Len(argument.data)>>,
     args |-> argument.data]

CallData(functionData, argument) ==
    [ok |-> argument.ok, selector |-> functionData, args |-> argument.data]

ABIencode(name, inputs, params) ==
    CallData(Selector(getFunctionSignature(name, inputs)), AbiEncode(inputs, params))

ABIdecode(outputs, data) == AbiDecode(outputs, data)

(***************************************************************************)
(* The contract interface the handles are built from (the ABI handed to    *)
(* new Contract): three read-only functions, one state-changing function   *)
(* and one event.                                                          *)
(***************************************************************************)
Fn(name, mut, inputs, outputs) ==
    [type |-> "function", name |-> name, stateMutability |-> mut,
     inputs |-> inputs, outputs |-> outputs]

ContractInterface ==
    << Fn("balanceOf", "view", <<AddressT>>, <<UintT>>),
       Fn("symbol", "view", << >>, <<StringT>>),
       Fn("getReserves", "pure", << >>, <<UintT, UintT>>),
       Fn("transfer", "nonpayable", <<AddressT, UintT>>, <<UintT>>),
       [type |-> "event", name |-> "Transfer", stateMutability |-> "",
        inputs |-> <<AddressT, AddressT, UintT>>, outputs |-> << >>] >>

\* the names a caller may ask for: two read-only functions, a state-changing
\* function, an event, and a name that is not declared
MethodNames == {"balanceOf", "getReserves", "transfer", "Transfer", "mint"}

\* the fragments of the ERC20 and ERC721 interfaces that the token helpers read
TokenInterface ==
    << Fn("symbol", "view", << >>, <<StringT>>),
       Fn("name", "view", << >>, <<StringT>>),
       Fn("decimals", "view", << >>, <<PT("uint8")>>),
       Fn("totalSupply", "view", << >>, <<UintT>>),
       Fn("ownerOf", "view", <<UintT>>, <<AddressT>>) >>

(***************************************************************************)
(* Contract.constructor: the table of read-only methods, keyed by name.    *)
(* A later fragment of the same name replaces an earlier one (Map.set).    *)
(***************************************************************************)
IsCallableAnyFunction(fragment) == fragment.type = "function"

IsCallableViewOnly(fragment) ==
    fragment.type = "function" /\ fragment.stateMutability = "view"

IsCallable(fragment) ==
    /\ fragment.type = "function"
    /\ (fragment.stateMutability = "pure" \/ fragment.stateMutability = "view")

BuildCallMethods(address, fragments) ==
    LET names == {fragments[i].name : i \in {j \in 1..Len(fragments) : IsCallable(fragments[j])}}
        last(n) == CHOOSE i \in 1..Len(fragments) :
                      /\ IsCallable(fragments[i]) /\ fragments[i].name = n
                      /\ \A j \in (i + 1)..Len(fragments) :
                            ~(IsCallable(fragments[j]) /\ fragments[j].name = n)
    IN  [n \in names |->
            [contract |-> [address |-> address],
             name |-> fragments[last(n)].name,
             inputs |-> fragments[last(n)].inputs,
             outputs |-> fragments[last(n)].outputs,
             params |-> << >>]]

\* this._callMethods of a handle at the given address
CallMethods(address) == BuildCallMethods(address, ContractInterface)

\* Contract.callMethod: _callMethods.get(name), then the descriptor
HasMethod(methods, name) == name \in DOMAIN methods

callMethod(methods, name, params) ==
    LET method == methods[name]
    IN  [contract |-> [address |-> method.contract.address],
         name |-> method.name,
         inputs |-> method.inputs,
         outputs |-> method.outputs,
         params |-> params]

(***************************************************************************)
(* The chain: what eth_call answers for callData sent to a target, and     *)
(* what the multicall contract's aggregate answers for a batch.            *)
(***************************************************************************)
ChainFunctions ==
    {ContractInterface[i] : i \in {j \in 1..Len(ContractInterface) :
                                      ContractInterface[j].type = "function"}}
    \cup {TokenInterface[i] : i \in 1..Len(TokenInterface)}

ChainReturn(target, f, args) ==
    IF f.name = "balanceOf" THEN <<UintV(ChainBalance(target, args[1].w[1]))>>
    ELSE IF f.name = "symbol" THEN <<StringV(ChainSymbol(target))>>
    ELSE IF f.name = "getReserves"
         THEN <<UintV(ChainReserves(target)[1]), UintV(ChainReserves(target)[2])>>
    ELSE IF f.name = "name" THEN <<StringV(ChainToken(target).name)>>
    ELSE IF f.name = "decimals"
         THEN <<[kind |-> "uint8", w |-> <<ChainToken(target).decimals>>]>>
    ELSE IF f.name = "totalSupply" THEN <<UintV(ChainToken(target).totalSupply)>>
    ELSE IF f.name = "ownerOf" THEN <<AddressV(ChainOwner(args[1].w[1]))>>
         ELSE <<UintV(1)>>

\* the function of the target that the selector names, run on the arguments
ChainRun(target, f, args) ==
    IF ~args.ok THEN [ok |-> FALSE, data |-> << >>]
    ELSE [ok |-> TRUE,
          data |-> AbiEncode(f.outputs, ChainReturn(target, f, args.vals)).data]

ChainDispatch(target, fs, callData) ==
    IF fs = {} THEN [ok |-> FALSE, data |-> << >>]
    ELSE ChainRun(target, CHOOSE g \in fs : TRUE,
                  AbiDecode((CHOOSE g \in fs : TRUE).inputs, callData.args))

\* a call with an unknown selector or undecodable arguments reverts
ChainCall(target, callData) ==
    ChainDispatch(target,
                  {f \in ChainFunctions :
                      Selector(getFunctionSignature(f.name, f.inputs)) = callData.selector},
                  callData)

AggregateAnswers(answers, h) ==
    IF \E i \in 1..Len(answers) : ~answers[i].ok
    THEN [ok |-> FALSE, blockNumber |-> h, returnData |-> << >>]
    ELSE [ok |-> TRUE, blockNumber |-> h,
          returnData |-> [i \in 1..Len(answers) |-> answers[i].data]]

\* Multicall.aggregate on-chain: every sub-call must succeed
ChainAggregate(bt, h) ==
    AggregateAnswers([i \in 1..Len(bt) |-> ChainCall(bt[i].target, bt[i].callData)], h)

(***************************************************************************)
(* Errors.  An error text is a sequence of words; toLowerCase maps each    *)
(* word, includes() looks for a run of consecutive words.                  *)
(***************************************************************************)
ErrRevert == <<"call", "revert", "exception">>
ErrRevertUpper == <<"CALL", "REVERT", "EXCEPTION">>
ErrNotFunction == <<"x.y", "is", "not", "a", "function">>
ErrTimeout == <<"timeout", "exceeded">>
\* ethers rejects a contract method that is called without its arguments
ErrMissingArgument == <<"missing", "argument">>
\* what the wrapped function can fail with, whether it throws or rejects
RemoteErrors == {ErrRevert, ErrRevertUpper, ErrNotFunction, ErrTimeout}

ErrNoMethod == <<"Contract", "method", "does", "not", "exist">>
ErrNotCallable == <<"Contract", "method", "not", "callable">>
ErrNoCallChain == <<"No", "call", "chain", "available">>
ErrEncoding == <<"types/values", "length", "mismatch">>
ErrDecoding == <<"data", "out-of-bounds">>
NoError == << >>

LowerWord(w) ==
    CASE w = "CALL" -> "call"
      [] w = "REVERT" -> "revert"
      [] w = "EXCEPTION" -> "exception"
      [] w = "Contract" -> "contract"
      [] w = "No" -> "no"
      [] w = "Error:" -> "error:"
      [] OTHER -> w

\* error.toString().toLowerCase()
ErrorText(error) == [i \in 1..(Len(error) + 1) |->
                        IF i = 1 THEN LowerWord("Error:") ELSE LowerWord(error[i - 1])]

\* String.prototype.includes
Includes(text, needle) ==
    \E i \in 1..Len(text) :
        /\ i + Len(needle) - 1 <= Len(text)
        /\ SubSeq(text, i, i + Len(needle) - 1) = needle

\* Contract.retryCall: e.includes('revert exception') || e.includes('not a function')
IsPermanentRevertOnly(error) == Includes(ErrorText(error), <<"revert", "exception">>)

IsPermanent(error) ==
    \/ Includes(ErrorText(error), <<"revert", "exception">>)
    \/ Includes(ErrorText(error), <<"not", "a", "function">>)

aggVars == <<aggPc, calls, batchSize, callRequests, batch, callResult, aggError,
             dispatched, sent, height>>
rcVars == <<rcPc, rcFunc, rcParams, rcAttempts, rcValue, rcError, now>>
builderVars == <<builders, lastOp>>
batchVars == <<bbOwners, bbMulti, bbSingle>>
regVars == <<multicallAddresses, providers, regLast>>
fanVars == <<fanPc, fanOwners, promises, settled, fanResult>>
abiVars == <<abiIn, abiOut>>
tokenVars == <<tkExec, tkMulti, tkSingle>>
holderVars == <<hdOwners, hdMulti, hdSingle>>
loadVars == <<loaded>>
fetchVars == <<fetchPc, fetchGiven, fetchRetries, fetchStatuses, fetchError, fetchNow>>
ctlVars == <<wallet, web3Provider, emitted, ctlLast>>
lateVars == <<tokenVars, holderVars, loadVars, fetchVars, ctlVars>>
restVars == <<regVars, fanVars, abiVars, lateVars>>
extVars == <<restVars, evaluatedAt>>
coreVars == <<aggVars, rcVars, builderVars, batchVars, regVars, fanVars, abiVars, evaluatedAt>>
vars == <<aggVars, rcVars, builderVars, batchVars, extVars>>

NoValue == [blockNumber |-> 0, returnData |-> << >>]
NoFunc == [isFunction |-> FALSE, name |-> "undefined"]
NoOp == [op |-> "none", receiver |-> 0, name |-> "", params |-> << >>, ok |-> TRUE,
         error |-> NoError, made |-> << >>, provider |-> "none", net |-> 0,
         result |-> << >>]
NotRun == [state |-> "none", error |-> NoError, list |-> << >>]

AggIdle ==
    /\ aggPc = "idle" /\ calls = << >> /\ batchSize = 0 /\ callRequests = << >>
    /\ batch = << >> /\ callResult = << >> /\ aggError = NoError
    /\ dispatched = << >> /\ sent = << >> /\ height = 1

RcIdle ==
    /\ rcPc = "idle" /\ rcFunc = NoFunc /\ rcParams = << >> /\ rcAttempts = << >>
    /\ rcValue = NoValue /\ rcError = NoError /\ now = 0

\* new Contract(address, interface, provider): an empty chain and the method table
NewContract(address) == [_callChain |-> << >>, _callMethods |-> CallMethods(address)]

BuilderIdle == builders = <<NewContract(TokenAddress)>> /\ lastOp = NoOp

BatchIdle == bbOwners = << >> /\ bbMulti = NotRun /\ bbSingle = NotRun

\* an address that is not there: undefined and the empty string are both falsy
NoAddress == ""

\* the chain ids of the model: two that the registry is seeded with, one that
\* it is not
ChainIds == {1, 5, 9}

\* multicallAddresses as the module leaves it after loading
SeededAddresses ==
    [c \in ChainIds |-> IF c = 1 THEN "0xeefba1e63905ef1d7acba5a8513c70307c1ce441"
                        ELSE IF c = 5 THEN "0x77dca2c955b15e9de4dbbcf1246b4b85b651e50e"
                        ELSE NoAddress]

NoRegOp == [op |-> "none", kind |-> "provider", network |-> 0, chainId |-> 0,
            multicallAddress |-> NoAddress, ok |-> TRUE, error |-> NoError]

RegIdle == multicallAddresses = SeededAddresses /\ providers = << >> /\ regLast = NoRegOp

FanIdle ==
    /\ fanPc = "idle" /\ fanOwners = << >> /\ promises = << >> /\ settled = << >>
    /\ fanResult = NotRun

NoAbiIn == [name |-> "", inputs |-> << >>, p1 |-> << >>, p2 |-> << >>]

AbiIdle == abiIn = NoAbiIn /\ abiOut = << >>

\* no exec() and no tokenMetadata() has run
TokenIdle ==
    /\ tkExec = [state |-> "none", address |-> 0, names |-> << >>, error |-> NoError,
                 handed |-> << >>, result |-> << >>]
    /\ tkMulti = [state |-> "none", address |-> 0, error |-> NoError, value |-> << >>]
    /\ tkSingle = tkMulti

\* no token is minted and holders() has not run
HolderIdle == hdOwners = << >> /\ hdMulti = NotRun /\ hdSingle = NotRun

NoLoad == [state |-> "none", kind |-> "provider", network |-> 0, error |-> NoError,
           multicallProvider |-> NoAddress]

LoadIdle == loaded = NoLoad

FetchIdle ==
    /\ fetchPc = "idle" /\ fetchGiven = 0 /\ fetchRetries = 0 /\ fetchStatuses = << >>
    /\ fetchError = NoError /\ fetchNow = 0

NoCtlOp == [op |-> "none", connected |-> FALSE, code |-> 0, message |-> "",
            events |-> << >>]

\* a controller as constructed: no wallet, no web3 provider, nothing emitted
CtlIdle == wallet = FALSE /\ web3Provider = FALSE /\ emitted = << >> /\ ctlLast = NoCtlOp

LateIdle == TokenIdle /\ HolderIdle /\ LoadIdle /\ FetchIdle /\ CtlIdle

ExtIdle == RegIdle /\ FanIdle /\ AbiIdle /\ LateIdle /\ evaluatedAt = << >>

(***************************************************************************)
(* Contract.retryCall                                                      *)
(*                                                                         *)
(* retryCall is an async function: the typeof check and the invocation     *)
(* func(...params) run synchronously in the caller's step.  The invocation *)
(* either throws synchronously (caught by the try block) or returns a      *)
(* promise, which `return func(...params)` hands on without awaiting it:   *)
(* the promise settles outside the try block.                              *)
(***************************************************************************)
AggregateFunc == [isFunction |-> TRUE, name |-> "aggregate"]
BalanceOfFunc == [isFunction |-> TRUE, name |-> "balanceOf"]

\* the promise of a contract method: resolved with the answer, or rejected
\* with 'call revert exception'
Resolved(ok, blockNumber, returnData) ==
    IF ok
    THEN [ok |-> TRUE, error |-> NoError,
          value |-> [blockNumber |-> blockNumber, returnData |-> returnData]]
    ELSE [ok |-> FALSE, value |-> NoValue, error |-> ErrRevert]

AggregateAnswer(r) == Resolved(r.ok, r.blockNumber, r.returnData)

CallAnswer(r, h) == Resolved(r.ok, h, <<r.data>>)

\* what the remote end answers to an invocation, network failures aside
Answer(func, params, h) ==
    IF Len(params) # 1
    THEN [ok |-> FALSE, value |-> NoValue, error |-> ErrMissingArgument]
    ELSE IF func.name = "aggregate"
    THEN AggregateAnswer(ChainAggregate(params[1], h))
    ELSE CallAnswer(ChainCall(TokenAddress, ABIencode("balanceOf", <<AddressT>>, params)), h)

Attempt(params, outcome, error, at) ==
    [params |-> params, outcome |-> outcome, error |-> error, at |-> at]

\* the catch block of retryCall: rethrow a permanent error, else sleep
CatchSync(error) ==
    IF IsPermanent(error)
    THEN rcPc' = "raised" /\ rcError' = error
    ELSE rcPc' = "sleeping" /\ rcError' = rcError

\* the body of retryCall(func, ...params) up to its first suspension
RetryCallBody(func, params, prior, t) ==
    /\ rcFunc' = func
    /\ rcParams' = params
    /\ now' = t
    /\ rcValue' = rcValue
    /\ IF ~func.isFunction
       THEN /\ rcPc' = "raised"
            /\ rcError' = ErrNoMethod
            /\ rcAttempts' = prior
            /\ sent' = sent
       ELSE /\ Len(prior) < MaxAttempts
            /\ sent' = IF func.name = "aggregate" THEN Append(sent, params) ELSE sent
            /\ \/ \E e \in RemoteErrors :
                    /\ rcAttempts' = Append(prior, Attempt(params, "threw", e, t))
                    /\ CatchSync(e)
               \/ /\ rcAttempts' = Append(prior, Attempt(params, "pending", NoError, t))
                  /\ rcPc' = "pending"
                  /\ rcError' = rcError

\* a convenience method: this.retryCall(this.contract.balanceOf, owner)
StartRetryCall ==
    /\ aggPc = "idle" /\ rcPc = "idle"
    /\ \E func \in {BalanceOfFunc, NoFunc}, params \in {<<AddressV(o)>> : o \in Owners} :
          RetryCallBody(func, params, << >>, 0)
    /\ UNCHANGED <<aggPc, calls, batchSize, callRequests, batch, callResult, aggError,
                   dispatched, height>>
    /\ UNCHANGED <<builderVars, batchVars, extVars>>

SetLast(attempts, outcome, error) ==
    [attempts EXCEPT ![Len(attempts)].outcome = outcome, ![Len(attempts)].error = error]

\* the promise returned by func settles: retryCall's own promise follows it
RcSettle ==
    /\ rcPc = "pending"
    /\ LET a == Answer(rcFunc, rcParams, height)
       IN  \/ /\ a.ok
              /\ rcPc' = "returned"
              /\ rcValue' = a.value
              /\ rcError' = rcError
              /\ rcAttempts' = SetLast(rcAttempts, "resolved", NoError)
           \/ \E e \in RemoteErrors \cup (IF a.ok THEN {} ELSE {a.error}) :
                 /\ rcPc' = "raised"
                 /\ rcError' = e
                 /\ rcValue' = rcValue
                 /\ rcAttempts' = SetLast(rcAttempts, "rejected", e)
    /\ UNCHANGED <<rcFunc, rcParams, now>>
    /\ UNCHANGED <<aggVars, builderVars, batchVars, extVars>>

\* await sleep(1); return this.retryCall(func)
RcWake ==
    /\ rcPc = "sleeping"
    /\ RetryCallBody(rcFunc, << >>, rcAttempts, now + RetryDelay)
    /\ UNCHANGED <<aggPc, calls, batchSize, callRequests, batch, callResult, aggError,
                   dispatched, height>>
    /\ UNCHANGED <<builderVars, batchVars, extVars>>

(***************************************************************************)
(* MulticallProvider.aggregate                                             *)
(***************************************************************************)
\* calls.map(elem => ({target: elem.contract.address, callData: ABI.encode(...)}))
RequestOf(target, callData) ==
    [ok |-> callData.ok,
     target |-> target,
     callData |-> [selector |-> callData.selector, args |-> callData.args]]

EncodeRequestUnchecked(elem) ==
    [RequestOf(elem.contract.address, ABIencode(elem.name, elem.inputs, elem.params))
        EXCEPT !.ok = TRUE]

EncodeRequest(elem) ==
    RequestOf(elem.contract.address, ABIencode(elem.name, elem.inputs, elem.params))

PairOf(r) == [target |-> r.target, callData |-> r.callData]

Request(elem) == PairOf(EncodeRequest(elem))

\* callRequests.slice(0, batchSize)
NextBatchOneMore(requests, size) == Slice(requests, 0, size + 1)

NextBatch(requests, size) == Slice(requests, 0, size)

\* callRequests.slice(batchSize)
RestRequestsSkipOne(requests, size) == SliceFrom(requests, size + 1)

RestRequests(requests, size) == SliceFrom(requests, size)

\* ABI.decode(outputs, returnData), then outputs.length === 1 ? params[0] : params
Unwrap(outputs, params) ==
    [ok |-> params.ok,
     result |-> IF ~params.ok THEN [bare |-> FALSE, vals |-> << >>]
                ELSE IF Len(outputs) = 1
                     THEN [bare |-> TRUE, vals |-> <<params.vals[1]>>]
                     ELSE [bare |-> FALSE, vals |-> params.vals]]

ResultOf(outputs, returnData) == Unwrap(outputs, ABIdecode(outputs, returnData))

\* the for loop over the batch: slot i of the response is decoded against
\* calls[i].outputs, i being the index within the batch
PushedResults(rs) ==
    [ok |-> \A i \in 1..Len(rs) : rs[i].ok,
     results |-> [i \in 1..Cardinality({k \in 1..Len(rs) : \A j \in 1..k : rs[j].ok}) |->
                     rs[i].result]]

DecodeBatchDeferred(cs, bt, response) == [ok |-> TRUE, results |-> << >>]

DecodeBatch(cs, bt, response) ==
    PushedResults([i \in 1..Len(bt) |->
                      IF i > Len(response.returnData)
                      THEN [ok |-> FALSE, result |-> [bare |-> FALSE, vals |-> << >>]]
                      ELSE ResultOf(cs[i].outputs, response.returnData[i])])

\* the while loop from its head to the await of retryCall, or to the return
AggLoop(requests, size, results, disp) ==
    /\ callResult' = results
    /\ IF Len(requests) = 0
       THEN /\ aggPc' = "done"
            /\ callRequests' = requests
            /\ batch' = << >>
            /\ dispatched' = disp
            /\ rcPc' = "idle"
            /\ UNCHANGED <<aggError, sent, rcFunc, rcParams, rcAttempts, rcValue,
                           rcError, now>>
       ELSE /\ Len(disp) < MaxDispatch
            /\ aggPc' = "awaiting"
            /\ batch' = NextBatch(requests, size)
            /\ callRequests' = RestRequests(requests, size)
            /\ dispatched' = Append(disp, batch')
            /\ RetryCallBody(AggregateFunc, <<batch'>>, << >>, 0)
            /\ UNCHANGED aggError

Descriptors ==
    { callMethod(CallMethods(TokenAddress), "balanceOf", <<AddressV(1)>>),
      callMethod(CallMethods(OtherAddress), "symbol", << >>),
      callMethod(CallMethods(TokenAddress), "getReserves", << >>),
      callMethod(CallMethods(TokenAddress), "balanceOf", << >>) }

SeqsUpTo(S, n) == UNION {[1..k -> S] : k \in 0..n}

\* aggregate(calls, batchSize), batchSize drawn from sizes: encode everything,
\* then enter the loop
AggregateOf(sizes) ==
    /\ aggPc = "idle" /\ rcPc = "idle"
    /\ \E cs \in SeqsUpTo(Descriptors, MaxCalls), size \in sizes :
          /\ calls' = cs
          /\ batchSize' = size
          /\ IF \E i \in 1..Len(cs) : ~EncodeRequest(cs[i]).ok
             THEN /\ aggPc' = "failed"
                  /\ aggError' = ErrEncoding
                  /\ UNCHANGED <<callRequests, batch, callResult, dispatched, sent, rcVars>>
             ELSE AggLoop([i \in 1..Len(cs) |-> Request(cs[i])], size, << >>, << >>)
    /\ evaluatedAt' = << >>
    /\ UNCHANGED <<height, builderVars, batchVars, restVars>>

\* callers that pass a positive batch size, or none
Aggregate == AggregateOf(1..MaxBatch)

\* callers that pass any batch size from 0 up
AggregateAnySize == AggregateOf(0..MaxBatch)

\* the awaited retryCall returned: decode the batch, then loop
AggResume ==
    /\ aggPc = "awaiting" /\ rcPc = "returned"
    /\ LET d == DecodeBatch(calls, batch, rcValue)
       IN  IF d.ok
           THEN AggLoop(callRequests, batchSize, callResult \o d.results, dispatched)
           ELSE /\ aggPc' = "failed"
                /\ aggError' = ErrDecoding
                /\ callResult' = callResult \o d.results
                /\ rcPc' = "idle"
                /\ UNCHANGED <<callRequests, batch, dispatched, sent, rcFunc, rcParams,
                               rcAttempts, rcValue, rcError, now>>
    /\ evaluatedAt' = Append(evaluatedAt, rcValue.blockNumber)
    /\ UNCHANGED <<calls, batchSize, height, builderVars, batchVars, restVars>>

\* the awaited retryCall raised: aggregate() fails with the same error
AggFailContinue ==
    /\ aggPc = "awaiting" /\ rcPc = "raised"
    /\ AggLoop(callRequests, batchSize, callResult, dispatched)
    /\ UNCHANGED <<calls, batchSize, height, builderVars, batchVars, extVars>>

AggFail ==
    /\ aggPc = "awaiting" /\ rcPc = "raised"
    /\ aggPc' = "failed"
    /\ aggError' = rcError
    /\ rcPc' = "idle"
    /\ UNCHANGED <<calls, batchSize, callRequests, batch, callResult, dispatched, sent,
                   height>>
    /\ UNCHANGED <<rcFunc, rcParams, rcAttempts, rcValue, rcError, now>>
    /\ UNCHANGED <<builderVars, batchVars, extVars>>

Init == AggIdle /\ RcIdle /\ BuilderIdle /\ BatchIdle /\ ExtIdle

Next == Aggregate \/ AggResume \/ AggFail \/ StartRetryCall \/ RcSettle \/ RcWake

Spec == Init /\ [][Next]_vars

(***************************************************************************)
(* aggregate() and retryCall() on a chain that grows while they run.       *)
(***************************************************************************)
MaxHeight == 3

\* a block is mined
Tick ==
    /\ height < MaxHeight
    /\ height' = height + 1
    /\ UNCHANGED <<aggPc, calls, batchSize, callRequests, batch, callResult, aggError,
                   dispatched, sent>>
    /\ UNCHANGED <<rcVars, builderVars, batchVars, extVars>>

NextChain == Next \/ Tick

\* aggregate() with any batch size
NextAnySize == AggregateAnySize \/ AggResume \/ AggFail \/ RcSettle \/ RcWake

SpecAnySize == Init /\ [][NextAnySize]_vars

SpecChain == Init /\ [][NextChain]_vars

(***************************************************************************)
(* aggregate() as a function of its input, on a chain that answers every   *)
(* request: the same loop, run to its end.  Used where aggregate() is one  *)
(* step of a larger operation (exec, balanceOfBatch).                      *)
(***************************************************************************)
\* callRequests after each iteration of the loop, up to the one that empties it
RECURSIVE Remaining(_, _)
Remaining(requests, size) ==
    IF Len(requests) = 0 THEN <<requests>>
    ELSE <<requests>> \o Remaining(RestRequests(requests, size), size)

\* per iteration: the batch, the awaited response and the decoded results
Iterations(cs, rem, size, h) ==
    [j \in 1..(Len(rem) - 1) |->
        [batch |-> NextBatch(rem[j], size),
         response |-> Answer(AggregateFunc, <<NextBatch(rem[j], size)>>, h)]]

Decoded(cs, its) ==
    [j \in 1..Len(its) |->
        [batch |-> its[j].batch,
         ok |-> its[j].response.ok,
         error |-> its[j].response.error,
         decoded |-> IF its[j].response.ok
                     THEN DecodeBatch(cs, its[j].batch, its[j].response.value)
                     ELSE [ok |-> FALSE, results |-> << >>]]]

\* the loop stops at the first iteration that fails
Outcome(its) ==
    LET bad == {j \in 1..Len(its) : ~its[j].decoded.ok}
        stop == IF bad = {} THEN Len(its) ELSE CHOOSE j \in bad : \A i \in bad : j <= i
    IN  [ok |-> bad = {},
         error |-> IF bad = {} THEN NoError
                   ELSE IF ~its[stop].ok THEN its[stop].error ELSE ErrDecoding,
         results |-> IF bad = {}
                     THEN Flatten([j \in 1..Len(its) |-> its[j].decoded.results])
                     ELSE << >>,
         batches |-> [j \in 1..stop |-> its[j].batch]]

AggregateRun(cs, size, h) ==
    IF \E i \in 1..Len(cs) : ~EncodeRequest(cs[i]).ok
    THEN [ok |-> FALSE, error |-> ErrEncoding, results |-> << >>, batches |-> << >>]
    ELSE Outcome(Decoded(cs, Iterations(cs, Remaining([i \in 1..Len(cs) |-> Request(cs[i])],
                                                       size), size, h)))

(***************************************************************************)
(* The chainable builder: Contract.call, Contract.callMethod (also reached *)
(* through BaseContract.call) and Contract.exec.                           *)
(***************************************************************************)
ErrUnknownMulticall == <<"Unknown", "multicall", "address">>

\* the parameter lists a caller passes
ParamChoices == {<< >>, <<AddressV(1)>>}

Op(op, receiver, name, params) ==
    [op |-> op, receiver |-> receiver, name |-> name, params |-> params,
     ok |-> TRUE, error |-> NoError, made |-> << >>, provider |-> "none", net |-> 0,
     result |-> << >>]

\* Contract.call on a known name: a new Contract whose chain is a copy of the
\* receiver's chain with the new descriptor pushed
CallAppendShared(bs, receiver, name, params) ==
    LET d == callMethod(NewContract(TokenAddress)._callMethods, name, params)
    IN  Append([bs EXCEPT ![receiver]._callChain = Append(@, d)],
               [NewContract(TokenAddress) EXCEPT
                    !._callChain = Append(bs[receiver]._callChain, d)])

CallAppend(bs, receiver, name, params) ==
    LET result == NewContract(TokenAddress)
        copy == Slice(bs[receiver]._callChain, 0, Len(bs[receiver]._callChain))
    IN  Append(bs, [result EXCEPT
                       !._callChain = Append(copy, callMethod(result._callMethods,
                                                              name, params))])

Call ==
    \E receiver \in 1..Len(builders), name \in MethodNames, params \in ParamChoices :
        IF HasMethod(NewContract(TokenAddress)._callMethods, name)
        THEN /\ Len(builders) < MaxBuilders
             /\ Len(builders[receiver]._callChain) < MaxChain
             /\ builders' = CallAppend(builders, receiver, name, params)
             /\ lastOp' = Op("call", receiver, name, params)
             /\ UNCHANGED <<aggVars, rcVars, batchVars, extVars>>
        ELSE /\ builders' = builders
             /\ lastOp' = [Op("call", receiver, name, params) EXCEPT
                              !.ok = FALSE, !.error = ErrNotCallable]
             /\ UNCHANGED <<aggVars, rcVars, batchVars, extVars>>

\* Contract.callMethod / BaseContract.call: the descriptor, or the error
CallMethod ==
    \E receiver \in 1..Len(builders), name \in MethodNames, params \in ParamChoices :
        /\ builders' = builders
        /\ lastOp' = IF HasMethod(builders[receiver]._callMethods, name)
                     THEN [Op("callMethod", receiver, name, params) EXCEPT
                              !.made = <<callMethod(builders[receiver]._callMethods,
                                                    name, params)>>]
                     ELSE [Op("callMethod", receiver, name, params) EXCEPT
                              !.ok = FALSE, !.error = ErrNotCallable]
        /\ UNCHANGED <<aggVars, rcVars, batchVars, extVars>>

\* Contract.exec: the chain check, then the provider, then aggregate(chain).
\* have: whether a MulticallProvider is passed in or held by the handle;
\* registered: whether the registry knows the handle's network.
ExecAggregated(r, have) ==
    [ok |-> r.ok, error |-> r.error,
     provider |-> IF have = "plain" THEN "created" ELSE "given",
     net |-> (IF have = "plain" THEN 1 ELSE 0) + Len(r.batches),
     result |-> r.results]

ExecOutcomeLateCheck(chain, have, registered, h) ==
    IF have = "plain" /\ ~registered
    THEN [ok |-> FALSE, error |-> ErrUnknownMulticall, provider |-> "none", net |-> 1,
          result |-> << >>]
    ELSE IF Len(chain) = 0
    THEN [ok |-> FALSE, error |-> ErrNoCallChain,
          provider |-> IF have = "plain" THEN "created" ELSE "given",
          net |-> IF have = "plain" THEN 1 ELSE 0, result |-> << >>]
    ELSE ExecAggregated(AggregateRun(chain, DefaultBatchSize, h), have)

ExecOutcome(chain, have, registered, h) ==
    IF Len(chain) = 0
    THEN [ok |-> FALSE, error |-> ErrNoCallChain, provider |-> "none", net |-> 0,
          result |-> << >>]
    ELSE IF have = "plain" /\ ~registered
    THEN [ok |-> FALSE, error |-> ErrUnknownMulticall, provider |-> "none", net |-> 1,
          result |-> << >>]
    ELSE ExecAggregated(AggregateRun(chain, DefaultBatchSize, h), have)

ExecOp(receiver, o) ==
    [Op("exec", receiver, "", << >>) EXCEPT
        !.ok = o.ok, !.error = o.error, !.provider = o.provider,
        !.net = o.net, !.result = o.result]

Exec ==
    \E receiver \in 1..Len(builders), have \in {"multicall", "plain"},
       registered \in BOOLEAN :
        /\ builders' = builders
        /\ lastOp' = ExecOp(receiver, ExecOutcome(builders[receiver]._callChain, have,
                                                  registered, height))
        /\ UNCHANGED <<aggVars, rcVars, batchVars, extVars>>

NextBuilder == Call \/ CallMethod \/ Exec

SpecBuilder == Init /\ [][NextBuilder]_vars

(***************************************************************************)
(* ERC20 / ERC721 / ERC777 balanceOfBatch (the three bodies are the same), *)
(* on a chain that answers every request.                                  *)
(***************************************************************************)
\* what a missing array element reads as
Undefined == [bare |-> TRUE, vals |-> << >>]

\* the value an ethers contract method resolves with: the decoded outputs,
\* unwrapped when the function declares one output
MethodValue(outputs, answer) == Unwrap(outputs, ABIdecode(outputs, answer.value.returnData[1]))

\* ERC20.balanceOf(owner) = retryCall(this.contract.balanceOf, owner), resolved
balanceOf(owner, h) ==
    MethodValue(CallMethods(TokenAddress)["balanceOf"].outputs,
                Answer(BalanceOfFunc, <<AddressV(owner)>>, h))

\* results.push({owner: owners[i], balance: balances[i]}) for every owner
PairUp(owners, r) ==
    IF ~r.ok THEN [state |-> "raised", error |-> r.error, list |-> << >>]
    ELSE [state |-> "returned", error |-> NoError,
          list |-> [i \in 1..Len(owners) |->
                       [owner |-> owners[i],
                        balance |-> IF i <= Len(r.results) THEN r.results[i]
                                    ELSE Undefined]]]

\* the branch taken when this.contract.multicallProvider is set
balanceOfBatchMulticall(owners, h) ==
    PairUp(owners,
           AggregateRun([i \in 1..Len(owners) |->
                            callMethod(CallMethods(TokenAddress), "balanceOf",
                                       <<AddressV(owners[i])>>)],
                        DefaultBatchSize, h))

\* Promise.all(promises): the values of the promises, in the order pushed
PromiseAll(values) ==
    IF \E i \in 1..Len(values) : ~values[i].ok
    THEN [state |-> "raised", error |-> ErrRevert, list |-> << >>]
    ELSE [state |-> "returned", error |-> NoError,
          list |-> [i \in 1..Len(values) |-> values[i].pair]]

GetOwner(owner, value) ==
    [ok |-> value.ok, pair |-> [owner |-> owner, balance |-> value.result]]

\* the branch taken otherwise: one get(owner) per owner, then Promise.all
balanceOfBatchSingle(owners, h) ==
    PromiseAll([i \in 1..Len(owners) |-> GetOwner(owners[i], balanceOf(owners[i], h))])

\* owner lists: every short list, and lists around the default batch size
\* that cycle through the owners
LongOwners(n, k) == [i \in 1..n |-> ((i + k) % Cardinality(Owners)) + 1]

OwnerLists ==
    SeqsUpTo(Owners, MaxOwners)
    \cup {LongOwners(n, k) : n \in (DefaultBatchSize - 1)..(DefaultBatchSize + MaxExtra),
                             k \in 0..(Cardinality(Owners) - 1)}

InitBatch ==
    /\ AggIdle /\ RcIdle /\ BuilderIdle /\ ExtIdle
    /\ bbOwners \in OwnerLists
    /\ bbMulti = NotRun /\ bbSingle = NotRun

BalanceOfBatchMulticall ==
    /\ bbMulti.state = "none"
    /\ bbMulti' = balanceOfBatchMulticall(bbOwners, height)
    /\ UNCHANGED <<bbOwners, bbSingle, aggVars, rcVars, builderVars, extVars>>

BalanceOfBatchSingle ==
    /\ bbSingle.state = "none"
    /\ bbSingle' = balanceOfBatchSingle(bbOwners, height)
    /\ UNCHANGED <<bbOwners, bbMulti, aggVars, rcVars, builderVars, extVars>>

NextBatchOps == BalanceOfBatchMulticall \/ BalanceOfBatchSingle

SpecBatch == InitBatch /\ [][NextBatchOps]_vars

(***************************************************************************)
(* A token handle (ERC20 / ERC721): its method table, reads of one method, *)
(* chains of calls and exec(), and ERC20.tokenMetadata on both branches,   *)
(* on a chain that answers every request.                                  *)
(***************************************************************************)
MaxNames == 3

\* this._callMethods of a token handle at the given address
TokenMethods(address) == BuildCallMethods(address, TokenInterface)

\* the zero-argument methods a chain is built from
ReadNames == {"symbol", "name", "decimals", "totalSupply"}

\* retryCall(this.contract[name], ...params), resolved: one eth_call to the
\* handle's address, decoded against the method's outputs
readMethod(address, name, params, h) ==
    MethodValue(TokenMethods(address)[name].outputs,
                CallAnswer(ChainCall(address,
                                     ABIencode(name, TokenMethods(address)[name].inputs,
                                               params)), h))

\* contract.call(n1).call(n2)...: each call copies the chain and pushes
CallChainPrepended(address, names) ==
    [i \in 1..Len(names) |->
        callMethod(TokenMethods(address), names[Len(names) + 1 - i], << >>)]

RECURSIVE CallChain(_, _)
CallChain(address, names) ==
    IF names = << >> THEN << >>
    ELSE LET before == CallChain(address, SubSeq(names, 1, Len(names) - 1))
         IN  Append(Slice(before, 0, Len(before)),
                    callMethod(TokenMethods(address), names[Len(names)], << >>))

\* exec() on a handle that holds a multicall provider: what the aggregator is
\* handed, and the outcome
ExecRecord(address, names, o, r) ==
    [state |-> IF o.ok THEN "returned" ELSE "raised", address |-> address,
     names |-> names, error |-> o.error, handed |-> r.batches, result |-> o.result]

\* the object tokenMetadata() returns, from the four values read
Metadata(address, ok, error, values) ==
    IF ~ok THEN [state |-> "raised", address |-> address, error |-> error, value |-> << >>]
    ELSE [state |-> "returned", address |-> address, error |-> NoError,
          value |-> <<[address |-> address, symbol |-> values[1], name |-> values[2],
                       decimals |-> values[3], totalSupply |-> values[4]]>>]

\* the branch taken when this.contract.multicallProvider is set
MetadataOfExec(address, o) == Metadata(address, o.ok, o.error, o.result)

tokenMetadataMulticall(address, h) ==
    MetadataOfExec(address,
                   ExecOutcome(CallChain(address, <<"symbol", "name", "decimals",
                                                    "totalSupply">>),
                               "multicall", TRUE, h))

\* the branch taken otherwise: four awaited reads
MetadataOfReads(address, reads) ==
    Metadata(address, \A i \in 1..Len(reads) : reads[i].ok, ErrRevert,
             [i \in 1..Len(reads) |-> reads[i].result])

tokenMetadataSingle(address, h) ==
    MetadataOfReads(address,
                    <<readMethod(address, "symbol", << >>, h),
                      readMethod(address, "name", << >>, h),
                      readMethod(address, "decimals", << >>, h),
                      readMethod(address, "totalSupply", << >>, h)>>)

TokenExec ==
    /\ tkExec.state = "none"
    /\ \E address \in {TokenAddress, OtherAddress}, names \in SeqsUpTo(ReadNames, MaxNames) :
          tkExec' = ExecRecord(address, names,
                               ExecOutcome(CallChain(address, names), "multicall", TRUE,
                                           height),
                               AggregateRun(CallChain(address, names), DefaultBatchSize,
                                            height))
    /\ UNCHANGED <<tkMulti, tkSingle, holderVars, loadVars, fetchVars, ctlVars, coreVars>>

TokenMetadataMulticall ==
    /\ \E address \in {TokenAddress, OtherAddress} :
          tkMulti' = tokenMetadataMulticall(address, height)
    /\ UNCHANGED <<tkExec, tkSingle, holderVars, loadVars, fetchVars, ctlVars, coreVars>>

TokenMetadataSingle ==
    /\ \E address \in {TokenAddress, OtherAddress} :
          tkSingle' = tokenMetadataSingle(address, height)
    /\ UNCHANGED <<tkExec, tkMulti, holderVars, loadVars, fetchVars, ctlVars, coreVars>>

NextToken == TokenExec \/ TokenMetadataMulticall \/ TokenMetadataSingle

SpecToken == Init /\ [][NextToken]_vars

(***************************************************************************)
(* ERC721.holders on both branches, on a chain that answers every request. *)
(* An address value reaches JavaScript as the string ethers decodes it to: *)
(* the checksum form, in which the letters of most addresses are of mixed  *)
(* case.                                                                   *)
(***************************************************************************)
MaxTokens == 3

\* ethers.utils.getAddress of an owner word: owner 2 is an address without
\* letters
getAddress(w) ==
    CASE w = 1 -> "0xAb5801a7D398351b8bE11C439e05C5B3259aeC9B"
      [] w = 2 -> "0x1111111111111111111111111111111111111111"
      [] w = 3 -> "0x52908400098527886E0F7030069857D2E4169EE7"
      [] OTHER -> "0x0000000000000000000000000000000000000000"

\* String.prototype.toLowerCase on those strings
toLowerCase(s) ==
    CASE s = "0xAb5801a7D398351b8bE11C439e05C5B3259aeC9B" ->
            "0xab5801a7d398351b8be11c439e05c5b3259aec9b"
      [] s = "0x52908400098527886E0F7030069857D2E4169EE7" ->
            "0x52908400098527886e0f7030069857d2e4169ee7"
      [] OTHER -> s

\* the string a decoded address result is
AddressString(result) == getAddress(result.vals[1].w[1])

\* tokenIds(): the ids of the minted tokens, sorted
tokenIds(n) == [i \in 1..n |-> i]

\* tokens = results.get(key) || []; tokens.push(id); results.set(key, tokens):
\* a Map keeps its keys in the order they were first set
MapPush(results, key, id) ==
    IF \E k \in 1..Len(results) : results[k].owner = key
    THEN [k \in 1..Len(results) |->
             IF results[k].owner = key
             THEN [owner |-> key, tokens |-> Append(results[k].tokens, id)]
             ELSE results[k]]
    ELSE Append(results, [owner |-> key, tokens |-> <<id>>])

RECURSIVE GroupByOwner(_, _, _)
GroupByOwner(results, keys, ids) ==
    IF keys = << >> THEN results
    ELSE GroupByOwner(MapPush(results, keys[1], ids[1]), Tail(keys), Tail(ids))

HoldersOf(ok, error, keys) ==
    IF ~ok THEN [state |-> "raised", error |-> error, list |-> << >>]
    ELSE [state |-> "returned", error |-> NoError,
          list |-> GroupByOwner(<< >>, keys, tokenIds(Len(keys)))]

\* the branch taken when this.contract.multicallProvider is set
HoldersOfAggregate(r) ==
    HoldersOf(r.ok, r.error, [i \in 1..Len(r.results) |-> AddressString(r.results[i])])

holdersMulticall(n, h) ==
    HoldersOfAggregate(AggregateRun([i \in 1..n |->
                                        callMethod(TokenMethods(TokenAddress), "ownerOf",
                                                   <<UintV(tokenIds(n)[i])>>)],
                                    DefaultBatchSize, h))

\* the branch taken otherwise: (await this.ownerOf(tokenId)).toLowerCase()
HoldersOfReads(reads) ==
    HoldersOf(\A i \in 1..Len(reads) : reads[i].ok, ErrRevert,
              [i \in 1..Len(reads) |-> toLowerCase(AddressString(reads[i].result))])

holdersSingle(n, h) ==
    HoldersOfReads([i \in 1..n |->
                       readMethod(TokenAddress, "ownerOf", <<UintV(tokenIds(n)[i])>>, h)])

\* the chain: a token is minted to an owner; what holders() returned before
\* is out of date
Mint ==
    /\ Len(hdOwners) < MaxTokens
    /\ \E owner \in Owners : hdOwners' = Append(hdOwners, owner)
    /\ hdMulti' = NotRun /\ hdSingle' = NotRun
    /\ UNCHANGED <<tokenVars, loadVars, fetchVars, ctlVars, coreVars>>

HoldersMulticall ==
    /\ hdMulti.state = "none"
    /\ hdMulti' = holdersMulticall(Len(hdOwners), height)
    /\ UNCHANGED <<hdOwners, hdSingle, tokenVars, loadVars, fetchVars, ctlVars, coreVars>>

HoldersSingle ==
    /\ hdSingle.state = "none"
    /\ hdSingle' = holdersSingle(Len(hdOwners), height)
    /\ UNCHANGED <<hdOwners, hdMulti, tokenVars, loadVars, fetchVars, ctlVars, coreVars>>

NextHolders == Mint \/ HoldersMulticall \/ HoldersSingle

SpecHolders == Init /\ [][NextHolders]_vars

(***************************************************************************)
(* MulticallProvider.create, the constructor behind it, and                *)
(* MulticallProvider.registerMulticallAddress.                             *)
(***************************************************************************)
ErrNoChainId == <<"Cannot", "determine", "chain", "ID", "for", "multicall", "provider">>

\* the addresses a caller supplies or registers
CallerAddresses == {"0xaaaaaaaaaaaaaaaaaaaaaaaaaaaaaaaaaaaaaaaa",
                    "0xbbbbbbbbbbbbbbbbbbbbbbbbbbbbbbbbbbbbbbbb"}

\* what a provider argument can be
ProviderKinds == {"signer", "provider", "other"}

NoProvider == [chainId |-> 0, multicallAddress |-> NoAddress]

\* the constructor: an explicit address, else the registry entry, else the error
MulticallProviderRegistryFirst(registry, chainId, multicallAddress) ==
    IF registry[chainId] # NoAddress
    THEN [ok |-> TRUE, error |-> NoError,
          provider |-> [chainId |-> chainId, multicallAddress |-> registry[chainId]]]
    ELSE IF multicallAddress = NoAddress
    THEN [ok |-> FALSE, error |-> ErrUnknownMulticall, provider |-> NoProvider]
    ELSE [ok |-> TRUE, error |-> NoError,
          provider |-> [chainId |-> chainId, multicallAddress |-> multicallAddress]]

MulticallProvider(registry, chainId, multicallAddress) ==
    IF multicallAddress = NoAddress
    THEN IF registry[chainId] = NoAddress
         THEN [ok |-> FALSE, error |-> ErrUnknownMulticall, provider |-> NoProvider]
         ELSE [ok |-> TRUE, error |-> NoError,
               provider |-> [chainId |-> chainId, multicallAddress |-> registry[chainId]]]
    ELSE [ok |-> TRUE, error |-> NoError,
          provider |-> [chainId |-> chainId, multicallAddress |-> multicallAddress]]

\* options.chainId after the three branches of create; 0 stands for a chain id
\* that is not given (!options.chainId)
ResolveChainId(kind, network, chainId) ==
    IF chainId = 0 /\ kind = "signer" THEN [ok |-> TRUE, chainId |-> network]
    ELSE IF chainId = 0 /\ kind = "provider" THEN [ok |-> TRUE, chainId |-> network]
    ELSE IF chainId = 0 THEN [ok |-> FALSE, chainId |-> 0]
    ELSE [ok |-> TRUE, chainId |-> chainId]

Constructed(registry, resolved, multicallAddress) ==
    IF ~resolved.ok
    THEN [ok |-> FALSE, error |-> ErrNoChainId, provider |-> NoProvider]
    ELSE MulticallProvider(registry, resolved.chainId, multicallAddress)

create(registry, kind, network, chainId, multicallAddress) ==
    Constructed(registry, ResolveChainId(kind, network, chainId), multicallAddress)

\* multicallAddresses.set(chainId, multicallAddress)
registerIfAbsent(registry, chainId, multicallAddress) ==
    IF registry[chainId] = NoAddress
    THEN [registry EXCEPT ![chainId] = multicallAddress]
    ELSE registry

registerMulticallAddress(registry, chainId, multicallAddress) ==
    [registry EXCEPT ![chainId] = multicallAddress]

RegOp(op, kind, network, chainId, multicallAddress, r) ==
    [op |-> op, kind |-> kind, network |-> network, chainId |-> chainId,
     multicallAddress |-> multicallAddress, ok |-> r.ok, error |-> r.error]

Created(kind, network, chainId, multicallAddress, r) ==
    /\ providers' = IF r.ok THEN Append(providers, r.provider) ELSE providers
    /\ regLast' = RegOp("create", kind, network, chainId, multicallAddress, r)

Create ==
    /\ Len(providers) < MaxProviders
    /\ \E kind \in ProviderKinds, network \in ChainIds, chainId \in {0} \cup ChainIds,
          multicallAddress \in {NoAddress} \cup CallerAddresses :
          Created(kind, network, chainId, multicallAddress,
                  create(multicallAddresses, kind, network, chainId, multicallAddress))
    /\ UNCHANGED <<multicallAddresses, fanVars, abiVars>>
    /\ UNCHANGED <<aggVars, rcVars, builderVars, batchVars, lateVars, evaluatedAt>>

RegisterMulticallAddress ==
    /\ \E chainId \in ChainIds, multicallAddress \in CallerAddresses :
          /\ multicallAddresses' =
                 registerMulticallAddress(multicallAddresses, chainId, multicallAddress)
          /\ regLast' = RegOp("register", "provider", 0, chainId, multicallAddress,
                              [ok |-> TRUE, error |-> NoError])
    /\ UNCHANGED <<providers, fanVars, abiVars>>
    /\ UNCHANGED <<aggVars, rcVars, builderVars, batchVars, lateVars, evaluatedAt>>

NextRegistry == Create \/ RegisterMulticallAddress

SpecRegistry == Init /\ [][NextRegistry]_vars

(***************************************************************************)
(* Web3Controller.loadContract: the provider is upgraded to a multicall    *)
(* provider where one can be created, and the handle is built from it.     *)
(***************************************************************************)
ErrInvalidAddress == <<"Contract", "address", "is", "not", "a", "valid", "address">>

\* the handle a call returns, or the error it raises
LoadOutcome(state, error, multicallProvider) ==
    [state |-> state, error |-> error, multicallProvider |-> multicallProvider]

\* new Contract(address, abi, options.provider) after the try block: the handle
\* holds a multicall provider only if options.provider is one by now
LoadedUncaught(r) ==
    IF r.ok THEN LoadOutcome("returned", NoError, r.provider.multicallAddress)
    ELSE LoadOutcome("raised", r.error, NoAddress)

Loaded(r) ==
    LoadOutcome("returned", NoError,
                IF r.ok THEN r.provider.multicallAddress ELSE NoAddress)

\* kind "multicall": options.provider is a MulticallProvider already, built
\* on the given aggregator address
loadContract(registry, kind, network, valid, given) ==
    IF ~valid THEN LoadOutcome("raised", ErrInvalidAddress, NoAddress)
    ELSE IF kind = "multicall" THEN LoadOutcome("returned", NoError, given)
    ELSE Loaded(create(registry, kind, network, 0, NoAddress))

LoadOp(kind, network, o) ==
    [state |-> o.state, kind |-> kind, network |-> network, error |-> o.error,
     multicallProvider |-> o.multicallProvider]

LoadContract ==
    /\ \E kind \in ProviderKinds \cup {"multicall"}, network \in ChainIds,
          valid \in BOOLEAN, given \in CallerAddresses :
          loaded' = LoadOp(kind, network,
                           loadContract(multicallAddresses, kind, network, valid, given))
    /\ UNCHANGED <<tokenVars, holderVars, fetchVars, ctlVars, coreVars>>

NextLoad == LoadContract \/ RegisterMulticallAddress

SpecLoad == Init /\ [][NextLoad]_vars

(***************************************************************************)
(* IPFSGatewayHelper.fetch: one invocation, its recursive retries          *)
(* included.  A response is its HTTP status; status 0 stands for a request *)
(* that fails without a response (the promise of fetch rejects).           *)
(***************************************************************************)
MaxRetries == 3
\* retries = 3
DefaultRetries == 3
\* await sleep(1), in seconds
FetchDelay == 1

Statuses == {0, 200, 404, 429, 499, 500, 599, 600}

\* response.ok
ResponseOk(status) == status >= 200 /\ status <= 299

StatusText(status) ==
    CASE status = 200 -> "OK"
      [] status = 404 -> "Not Found"
      [] status = 429 -> "Too Many Requests"
      [] status = 500 -> "Internal Server Error"
      [] OTHER -> ""

ErrFetchFailed == <<"fetch", "failed">>

\* (status === 429 || (status >= 500 && status < 600)) && retries > 0
ShouldRetryAtZero(status, retries) ==
    (status = 429 \/ (status >= 500 /\ status < 600)) /\ retries >= 0

ShouldRetry(status, retries) ==
    (status = 429 \/ (status >= 500 /\ status < 600)) /\ retries > 0

\* fetch(path, payloadType, retries) is called; retries left out is 3
FetchStart ==
    /\ fetchPc = "idle"
    /\ \E retries \in 0..MaxRetries \cup {DefaultRetries} :
          fetchGiven' = retries /\ fetchRetries' = retries
    /\ fetchPc' = "requesting"
    /\ UNCHANGED <<fetchStatuses, fetchError, fetchNow>>
    /\ UNCHANGED <<tokenVars, holderVars, loadVars, ctlVars, coreVars>>

\* the awaited request settles
FetchRespond ==
    /\ fetchPc = "requesting"
    /\ \E status \in Statuses :
          /\ fetchStatuses' = Append(fetchStatuses, status)
          /\ IF status = 0
             THEN fetchPc' = "raised" /\ fetchError' = ErrFetchFailed
             ELSE IF ResponseOk(status)
             THEN fetchPc' = "returned" /\ fetchError' = fetchError
             ELSE IF ShouldRetry(status, fetchRetries)
             THEN fetchPc' = "sleeping" /\ fetchError' = fetchError
             ELSE fetchPc' = "raised" /\ fetchError' = <<status, StatusText(status)>>
    /\ UNCHANGED <<fetchGiven, fetchRetries, fetchNow>>
    /\ UNCHANGED <<tokenVars, holderVars, loadVars, ctlVars, coreVars>>

\* the sleep is over: return IPFSGatewayHelper.fetch(path, payloadType, --retries)
FetchWake ==
    /\ fetchPc = "sleeping"
    /\ fetchNow' = fetchNow + FetchDelay
    /\ fetchRetries' = fetchRetries - 1
    /\ fetchPc' = "requesting"
    /\ UNCHANGED <<fetchGiven, fetchStatuses, fetchError>>
    /\ UNCHANGED <<tokenVars, holderVars, loadVars, ctlVars, coreVars>>

NextFetch == FetchStart \/ FetchRespond \/ FetchWake

\* every request settles and every timer fires
SpecFetch == Init /\ [][NextFetch]_vars /\ WF_vars(FetchRespond) /\ WF_vars(FetchWake)

(***************************************************************************)
(* Web3Controller: connectWallet, showWeb3Modal and disconnect, and the    *)
(* events they emit.                                                       *)
(***************************************************************************)
MaxEvents == 4

\* get connected: typeof this.signer !== 'undefined', the signer being
\* this.wallet || this.web3Provider?.getSigner()
connected(w, p) == w \/ p

Event(name, code, message) == [name |-> name, code |-> code, message |-> message]

\* what disconnect(code, message) emits when it finds a web3 provider held:
\* the wallet is dropped before `if (this.connected)` is evaluated
DisconnectEvents(p, code, message) ==
    IF connected(FALSE, p) THEN <<Event("disconnect", code, message)>> ELSE << >>

DisconnectMessage == "Disconnected from wallet provider"

CtlOp(op, code, message, events) ==
    [op |-> op, connected |-> connected(wallet, web3Provider), code |-> code,
     message |-> message, events |-> events]

\* connectWallet(wallet)
ConnectWallet ==
    /\ Len(emitted) < MaxEvents
    /\ wallet' = TRUE
    /\ web3Provider' = web3Provider
    /\ emitted' = Append(emitted, Event("connect", 0, ""))
    /\ ctlLast' = CtlOp("connectWallet", 0, "", <<Event("connect", 0, "")>>)
    /\ UNCHANGED <<tokenVars, holderVars, loadVars, fetchVars, coreVars>>

\* showWeb3Modal(): disconnect() if connected, then the modal connects a web3
\* provider, or fails and disconnect() runs once more
ShowWeb3Modal ==
    /\ \E ok \in BOOLEAN :
          /\ wallet' = FALSE
          /\ web3Provider' = ok
          /\ emitted' = emitted
                        \o (IF connected(wallet, web3Provider)
                            THEN DisconnectEvents(web3Provider, -1, DisconnectMessage)
                            ELSE << >>)
                        \o (IF ok THEN <<Event("connect", 0, "")>> ELSE << >>)
          /\ Len(emitted') <= MaxEvents
          /\ ctlLast' = CtlOp("showWeb3Modal", 0, "", << >>)
    /\ UNCHANGED <<tokenVars, holderVars, loadVars, fetchVars, coreVars>>

\* disconnect(code, message)
Disconnect ==
    /\ \E code \in {-1, 4001}, message \in {DisconnectMessage, "bye"} :
          /\ wallet' = FALSE
          /\ web3Provider' = FALSE
          /\ emitted' = emitted \o DisconnectEvents(web3Provider, code, message)
          /\ Len(emitted') <= MaxEvents
          /\ ctlLast' = CtlOp("disconnect", code, message,
                              DisconnectEvents(web3Provider, code, message))
    /\ UNCHANGED <<tokenVars, holderVars, loadVars, fetchVars, coreVars>>

NextController == ConnectWallet \/ ShowWeb3Modal \/ Disconnect

SpecController == Init /\ [][NextController]_vars




(***************************************************************************)
(* balanceOfBatch without a multicall provider, step by step: the for loop *)
(* pushes one get(owner) promise per owner (each get runs synchronously up *)
(* to its await, which invokes balanceOf), the promises settle in any      *)
(* order, and Promise.all joins them.                                      *)
(***************************************************************************)
\* what a balanceOf promise can be rejected with
FanErrors == {ErrRevert}

\* get(owner), as pushed
Pushed(owner) == [owner |-> owner, state |-> "pending", balance |-> Undefined, error |-> NoError]

\* get(owner), once balanceOf has resolved: {owner, balance}
Fulfilled(promise, value) == [promise EXCEPT !.state = "fulfilled", !.balance = value.result]

Rejected(promise, e) == [promise EXCEPT !.state = "rejected", !.error = e]

\* the value of Promise.all when every promise is fulfilled
JoinInCompletionOrder(ps, order) ==
    [k \in 1..Len(order) |-> [owner |-> ps[order[k]].owner, balance |-> ps[order[k]].balance]]

JoinInOrder(ps, order) ==
    [i \in 1..Len(ps) |-> [owner |-> ps[i].owner, balance |-> ps[i].balance]]

\* the first promise to be rejected, if any
FirstRejected(ps, order) ==
    LET bad == {k \in 1..Len(order) : ps[order[k]].state = "rejected"}
    IN  IF bad = {} THEN 0 ELSE order[CHOOSE k \in bad : \A l \in bad : k <= l]

\* the for loop of the fallback branch, then return Promise.all(promises)
FanStart ==
    /\ fanPc = "idle"
    /\ \E owners \in SeqsUpTo(Owners, MaxFanOwners) :
          /\ fanOwners' = owners
          /\ promises' = [i \in 1..Len(owners) |-> Pushed(owners[i])]
    /\ fanPc' = "awaiting"
    /\ UNCHANGED <<settled, fanResult, regVars, abiVars>>
    /\ UNCHANGED <<aggVars, rcVars, builderVars, batchVars, lateVars, evaluatedAt>>

\* one of the pending balanceOf calls completes
FanSettle ==
    /\ fanPc # "idle"
    /\ \E i \in 1..Len(promises) :
          /\ promises[i].state = "pending"
          /\ settled' = Append(settled, i)
          /\ \/ promises' = [promises EXCEPT
                                ![i] = Fulfilled(@, balanceOf(promises[i].owner, height))]
             \/ \E e \in FanErrors : promises' = [promises EXCEPT ![i] = Rejected(@, e)]
    /\ UNCHANGED <<fanPc, fanOwners, fanResult, regVars, abiVars>>
    /\ UNCHANGED <<aggVars, rcVars, builderVars, batchVars, lateVars, evaluatedAt>>

\* Promise.all rejects with the first rejection
FanRaise ==
    /\ fanPc = "awaiting"
    /\ FirstRejected(promises, settled) # 0
    /\ fanPc' = "raised"
    /\ fanResult' = [state |-> "raised",
                     error |-> promises[FirstRejected(promises, settled)].error,
                     list |-> << >>]
    /\ UNCHANGED <<fanOwners, promises, settled, regVars, abiVars>>
    /\ UNCHANGED <<aggVars, rcVars, builderVars, batchVars, lateVars, evaluatedAt>>

\* Promise.all resolves once every promise is fulfilled
FanReturn ==
    /\ fanPc = "awaiting"
    /\ \A i \in 1..Len(promises) : promises[i].state = "fulfilled"
    /\ fanPc' = "returned"
    /\ fanResult' = [state |-> "returned", error |-> NoError,
                     list |-> JoinInOrder(promises, settled)]
    /\ UNCHANGED <<fanOwners, promises, settled, regVars, abiVars>>
    /\ UNCHANGED <<aggVars, rcVars, builderVars, batchVars, lateVars, evaluatedAt>>

NextFanOut == FanStart \/ FanSettle \/ FanRaise \/ FanReturn

SpecFanOut == Init /\ [][NextFanOut]_vars

(***************************************************************************)
(* ABI.encode applied to two parameter lists for the same name and input   *)
(* types.                                                                  *)
(***************************************************************************)
AbiNames == {"transfer", "balanceOf", "symbol"}

AbiTypes == {AddressT, UintT, StringT}

\* some values of a type
ValuesOf(t) ==
    IF t.type = "address" THEN {AddressV(1), AddressV(2)}
    ELSE IF t.type = "uint256" THEN {UintV(0), UintV(5)}
    ELSE {StringV(<< >>), StringV(<<5, 6>>)}

\* the parameter lists that fit the input types, and the empty list, which
\* fits only an empty list of input types
ParamLists(inputs) ==
    {ps \in [1..Len(inputs) -> UNION {ValuesOf(t) : t \in AbiTypes}] :
        \A i \in 1..Len(inputs) : ps[i] \in ValuesOf(inputs[i])} \cup {<< >>}

\* the first four bytes of an encoding: the eight hex digits after '0x'
FirstFourBytes(encoded) == encoded.selector

InitABI ==
    /\ AggIdle /\ RcIdle /\ BuilderIdle /\ BatchIdle /\ RegIdle /\ FanIdle
    /\ LateIdle /\ evaluatedAt = << >>
    /\ \E name \in AbiNames, inputs \in SeqsUpTo(AbiTypes, MaxAbiInputs) :
          \E p1 \in ParamLists(inputs), p2 \in ParamLists(inputs) :
              abiIn = [name |-> name, inputs |-> inputs, p1 |-> p1, p2 |-> p2]
    /\ abiOut = << >>

EncodePair ==
    /\ abiOut = << >>
    /\ abiOut' = <<ABIencode(abiIn.name, abiIn.inputs, abiIn.p1),
                   ABIencode(abiIn.name, abiIn.inputs, abiIn.p2)>>
    /\ UNCHANGED <<abiIn, regVars, fanVars>>
    /\ UNCHANGED <<aggVars, rcVars, builderVars, batchVars, lateVars, evaluatedAt>>

NextABI == EncodePair

SpecABI == InitABI /\ [][NextABI]_vars

(***************************************************************************)
(* ABI.getFunctionSignature applied to inputs that nest tuples and tuple   *)
(* arrays.                                                                 *)
(***************************************************************************)
MaxDepth == 2

\* a ParamType of a tuple kind with its components
TupleT(type, components) == [type |-> type, components |-> components]

\* the ParamTypes nested at most d deep: a tuple or tuple array holds no
\* component, one component, or one component next to a shallow sibling
RECURSIVE NestedTypes(_)
NestedTypes(d) ==
    IF d = 0 THEN {UintT, AddressT}
    ELSE LET siblings == {UintT, TupleT("tuple[]", <<AddressT>>)}
             around(x) == {<<x>>} \cup {<<s, x>> : s \in siblings}
                                  \cup {<<x, s>> : s \in siblings}
             components == {<< >>} \cup UNION {around(x) : x \in NestedTypes(d - 1)}
         IN  {UintT, AddressT}
             \cup {TupleT(t, c) : t \in {"tuple", "tuple[]"}, c \in components}

InitSignature ==
    /\ AggIdle /\ RcIdle /\ BuilderIdle /\ BatchIdle /\ RegIdle /\ FanIdle
    /\ LateIdle /\ evaluatedAt = << >>
    /\ \E name \in AbiNames, t \in NestedTypes(MaxDepth) :
          \E inputs \in {<< >>, <<t>>, <<t, UintT>>, <<TupleT("tuple", <<AddressT>>), t>>} :
              abiIn = [name |-> name, inputs |-> inputs, p1 |-> << >>, p2 |-> << >>]
    /\ abiOut = << >>

Signature ==
    /\ abiOut = << >>
    /\ abiOut' = <<getFunctionSignature(abiIn.name, abiIn.inputs)>>
    /\ UNCHANGED <<abiIn, regVars, fanVars>>
    /\ UNCHANGED <<aggVars, rcVars, builderVars, batchVars, lateVars, evaluatedAt>>

NextSignature == Signature

SpecSignature == InitSignature /\ [][NextSignature]_vars

(***************************************************************************)
(* Claims about aggregate() and retryCall(), checked under Spec.           *)
(***************************************************************************)
\* the return blob the chain produces for a call descriptor
BlobOf(elem) == ChainCall(Request(elem).target, Request(elem).callData).data

CeilDiv(n, d) == (n + d - 1) \div d

\* the requests of calls (j-1)*b+1 .. min(j*b, N), in input order
ExpectedBatch(cs, b, j) ==
    [i \in 1..(Min(j * b, Len(cs)) - (j - 1) * b) |->
        LET elem == cs[(j - 1) * b + i]
        IN  [target |-> elem.contract.address,
             callData |-> [selector |-> Selector(getFunctionSignature(elem.name, elem.inputs)),
                           args |-> AbiEncode(elem.inputs, elem.params).data]]]

\* the error texts of the model that contain 'revert exception' or 'not a function'
PermanentText(error) == error \in {ErrRevert, ErrRevertUpper, ErrNotFunction}

Failed(a) == a.outcome \in {"threw", "rejected"}

\* C1: aggregate() returns exactly N results, and result k is the return blob
\* of call k decoded against call k's own output types, for every batch size.
C1_ResultDecodesOwnOutputs ==
    aggPc = "done" =>
        /\ Len(callResult) = Len(calls)
        /\ \A k \in 1..Len(calls) :
              callResult[k].vals = ABIdecode(calls[k].outputs, BlobOf(calls[k])).vals

\* C2: result k is a bare value exactly when call k declares one output type,
\* and a sequence of m values when call k declares m >= 2 output types.
C2_FlattenByOwnArity ==
    aggPc = "done" =>
        \A k \in 1..Len(callResult) :
            /\ Len(calls[k].outputs) = 1 => callResult[k].bare
            /\ Len(calls[k].outputs) >= 2 =>
                  ~callResult[k].bare /\ Len(callResult[k].vals) = Len(calls[k].outputs)

\* C3: the batches dispatched are the consecutive slices of the request list:
\* batch j carries the requests of calls (j-1)*b+1 .. min(j*b, N), every batch
\* is non-empty and has at most b entries, and a completed aggregate() has
\* invoked the aggregator exactly ceil(N/b) times, once per batch.
C3_ConsecutiveBatches ==
    (aggPc # "idle" /\ aggError # ErrEncoding) =>
        /\ Len(dispatched) <= CeilDiv(Len(calls), batchSize)
        /\ \A j \in 1..Len(dispatched) :
              /\ dispatched[j] = ExpectedBatch(calls, batchSize, j)
              /\ Len(dispatched[j]) >= 1
              /\ Len(dispatched[j]) <= batchSize
        /\ aggPc = "done" =>
              /\ Len(dispatched) = CeilDiv(Len(calls), batchSize)
              /\ SumSeq([j \in 1..Len(dispatched) |-> Len(dispatched[j])]) = Len(calls)
              /\ sent = [j \in 1..Len(dispatched) |-> <<dispatched[j]>>]

\* three calls in batches of two: a full batch and a shorter last one
C3_Witness ==
    /\ aggPc = "done" /\ Len(calls) = 3 /\ batchSize = 2
    /\ Len(dispatched) = 2 /\ Len(dispatched[2]) = 1

\* C4: an attempt that fails with a permanent error text is the last one:
\* retryCall fails with that same error at the time of the failure; and for
\* something that is not a function retryCall fails with 'Contract method does
\* not exist' and invokes nothing.
C4_PermanentRaisedAtOnce ==
    /\ ~rcFunc.isFunction =>
          /\ rcAttempts = << >>
          /\ rcPc \in {"idle", "raised"}
          /\ rcPc = "raised" => rcError = ErrNoMethod /\ now = 0
    /\ \A i \in 1..Len(rcAttempts) :
          (Failed(rcAttempts[i]) /\ PermanentText(rcAttempts[i].error)) =>
              /\ i = Len(rcAttempts)
              /\ rcError = rcAttempts[i].error
              /\ now = rcAttempts[i].at
              /\ \/ rcPc = "raised"
                 \/ rcPc = "idle" /\ aggPc = "failed" /\ aggError = rcAttempts[i].error

\* a synchronous 'not a function' failure, raised without a second invocation
C4_Witness ==
    /\ rcPc = "raised" /\ Len(rcAttempts) = 1
    /\ rcAttempts[1].outcome = "threw" /\ rcError = ErrNotFunction

\* a handle whose method is missing
C4_WitnessNoMethod == rcPc = "raised" /\ ~rcFunc.isFunction /\ rcError = ErrNoMethod

\* C5: an attempt that fails with a transient error text is followed by
\* another invocation, made no earlier than the fixed delay after the failure.
C5_TransientIsRetried ==
    \A i \in 1..Len(rcAttempts) :
        (Failed(rcAttempts[i]) /\ ~PermanentText(rcAttempts[i].error)) =>
            \/ i = Len(rcAttempts) /\ rcPc = "sleeping"
            \/ i < Len(rcAttempts) /\ rcAttempts[i + 1].at >= rcAttempts[i].at + RetryDelay

\* C6: for a wrapped function that exists, every error retryCall reports, and
\* every remote error aggregate() reports, has a permanent text.
C6_NoTransientSurfaced ==
    /\ (rcPc = "raised" /\ rcFunc.isFunction) => PermanentText(rcError)
    /\ (aggPc = "failed" /\ aggError \notin {ErrEncoding, ErrDecoding}) =>
          PermanentText(aggError)

\* the attempts of the current retry chain whose promise has not settled
InFlight(attempts) == {i \in 1..Len(attempts) : attempts[i].outcome = "pending"}

\* C12: a batch is dispatched only when no request of the invocation is in
\* flight and, unless it is the first batch, the response of the batch before
\* it has been received and every slot of it decoded and pushed; afterwards
\* at most one request is in flight.
C12_SequentialDispatch ==
    [][ Len(dispatched') > Len(dispatched) =>
            /\ Len(dispatched') = Len(dispatched) + 1
            /\ InFlight(rcAttempts) = {}
            /\ Len(dispatched) > 0 =>
                  /\ aggPc = "awaiting" /\ rcPc = "returned"
                  /\ rcAttempts[Len(rcAttempts)].outcome = "resolved"
                  /\ Len(callResult') =
                        SumSeq([j \in 1..Len(dispatched) |-> Len(dispatched[j])])
            /\ Cardinality(InFlight(rcAttempts')) <= 1 ]_vars

\* the second batch is in flight, the results of the first one are pushed
C12_Witness ==
    /\ aggPc = "awaiting" /\ rcPc = "pending"
    /\ Len(dispatched) = 2 /\ Len(dispatched[1]) = 2
    /\ Len(callResult) = 2
    /\ Cardinality(InFlight(rcAttempts)) = 1

\* the parameters of the descriptor do not fit its declared input types
EncodingFails(elem) == ~AbiEncode(elem.inputs, elem.params).ok

\* C17: when some descriptor of the list cannot be encoded, wherever in the
\* list it is, aggregate() fails with the encoding error, no batch has been
\* dispatched, the aggregator has not been invoked and nothing was retried.
C17_EncodingFailsUpFront ==
    (aggPc # "idle" /\ \E i \in 1..Len(calls) : EncodingFails(calls[i])) =>
        /\ aggPc = "failed"
        /\ aggError = ErrEncoding
        /\ dispatched = << >>
        /\ sent = << >>
        /\ callResult = << >>
        /\ rcAttempts = << >> /\ rcPc = "idle" /\ now = 0

\* only the third descriptor is malformed, and it would have gone out alone in
\* the third batch
C17_Witness ==
    /\ aggPc = "failed" /\ aggError = ErrEncoding
    /\ Len(calls) = 3 /\ batchSize = 1
    /\ ~EncodingFails(calls[1]) /\ ~EncodingFails(calls[2]) /\ EncodingFails(calls[3])

\* C18: when the awaited request of a batch has failed with a permanent error,
\* or a slot of its response cannot be decoded, the next step of aggregate() is
\* to fail with that error: no further batch is dispatched, the aggregator is
\* not invoked again and no result list is returned; and a failed aggregate()
\* does nothing more.
C18_FailureEndsAggregate ==
    [][ /\ (aggPc = "awaiting" /\ rcPc = "raised" /\ PermanentText(rcError)) =>
              /\ aggPc' = "failed" /\ aggError' = rcError
              /\ dispatched' = dispatched /\ sent' = sent /\ rcAttempts' = rcAttempts
        /\ (aggPc = "awaiting" /\ rcPc = "returned"
            /\ ~DecodeBatch(calls, batch, rcValue).ok) =>
              /\ aggPc' = "failed" /\ aggError' = ErrDecoding
              /\ dispatched' = dispatched /\ sent' = sent /\ rcAttempts' = rcAttempts
        /\ aggPc = "failed" =>
              /\ aggPc' = "failed" /\ aggError' = aggError
              /\ dispatched' = dispatched /\ sent' = sent ]_vars

\* the second of three batches was reverted: one result was decoded before,
\* one request is left undispatched
C18_Witness ==
    /\ aggPc = "failed" /\ aggError = ErrRevert
    /\ Len(calls) = 3 /\ Len(dispatched) = 2 /\ Len(sent) = 2
    /\ Len(callResult) = 1 /\ Len(callRequests) = 1

\* the response of the second batch could not be decoded
C18_WitnessDecoding ==
    /\ aggPc = "failed" /\ aggError = ErrDecoding
    /\ Len(dispatched) = 2 /\ Len(callRequests) = 1

\* C19: as long as every attempt of a retry chain has failed with a transient
\* error (or is still pending), retryCall has neither returned nor raised: it
\* completes only through an attempt that succeeds or fails permanently.
C19_TransientNeverCompletes ==
    (rcFunc.isFunction /\ rcPc \in {"returned", "raised"}) =>
        \E i \in 1..Len(rcAttempts) :
            \/ rcAttempts[i].outcome = "resolved"
            \/ Failed(rcAttempts[i]) /\ PermanentText(rcAttempts[i].error)

(***************************************************************************)
(* Claims about the chainable builder, checked under SpecBuilder.          *)
(***************************************************************************)
\* the names the interface declares as pure or view functions
ReadOnlyNames == {"balanceOf", "symbol", "getReserves"}

\* C7: call / callMethod for a name that is not a read-only method fails with
\* 'Contract method not callable', issues no network call and changes no
\* Contract object (neither a call chain nor a method table).
C7_UnknownMethodRejected ==
    [][ (lastOp'.op \in {"call", "callMethod"} /\ lastOp'.name \notin ReadOnlyNames) =>
            /\ ~lastOp'.ok
            /\ lastOp'.error = ErrNotCallable
            /\ lastOp'.made = << >>
            /\ lastOp'.net = 0
            /\ builders' = builders ]_vars

\* a chained call for an undeclared name on a builder that already holds a call
C7_Witness ==
    /\ lastOp.op = "call" /\ lastOp.name = "mint" /\ ~lastOp.ok
    /\ lastOp.error = ErrNotCallable
    /\ Len(builders[lastOp.receiver]._callChain) > 0

\* C9: call() leaves every existing builder as it was and adds one builder
\* whose chain is the receiver's chain followed by exactly one descriptor, the
\* one asked for.
C9_CopyOnAppend ==
    [][ /\ Len(builders') >= Len(builders)
        /\ \A i \in 1..Len(builders) : builders'[i] = builders[i]
        /\ (lastOp'.op = "call" /\ lastOp'.ok) =>
              /\ Len(builders') = Len(builders) + 1
              /\ LET chain == builders'[Len(builders')]._callChain
                     base == builders[lastOp'.receiver]._callChain
                 IN  /\ Len(chain) = Len(base) + 1
                     /\ SubSeq(chain, 1, Len(base)) = base
                     /\ chain[Len(chain)].name = lastOp'.name
                     /\ chain[Len(chain)].params = lastOp'.params
                     /\ chain[Len(chain)].contract.address = TokenAddress ]_vars

\* two builders forked from the same base with different calls
C9_Witness ==
    /\ Len(builders) >= 3
    /\ Len(builders[1]._callChain) = 0
    /\ Len(builders[2]._callChain) = 1 /\ Len(builders[3]._callChain) = 1
    /\ builders[2]._callChain # builders[3]._callChain

\* C10: exec() on an empty chain fails with 'No call chain available'; no
\* provider is resolved or created and no network call is issued.
C10_EmptyChainRejected ==
    (lastOp.op = "exec" /\ Len(builders[lastOp.receiver]._callChain) = 0) =>
        /\ ~lastOp.ok
        /\ lastOp.error = ErrNoCallChain
        /\ lastOp.provider = "none"
        /\ lastOp.net = 0
        /\ lastOp.result = << >>

\* exec() on the base handle, which has no queued call
C10_Witness ==
    /\ lastOp.op = "exec" /\ lastOp.receiver = 1 /\ lastOp.error = ErrNoCallChain
    /\ Len(builders[1]._callChain) = 0

\* every name a fragment of the interface carries, and the names callers ask for
AllNames == MethodNames \cup {ContractInterface[i].name : i \in 1..Len(ContractInterface)}

\* the interface declares a function of that name that is pure or view
DeclaredReadOnly(name) ==
    \E i \in 1..Len(ContractInterface) :
        /\ ContractInterface[i].name = name
        /\ ContractInterface[i].type = "function"
        /\ ContractInterface[i].stateMutability \in {"pure", "view"}

\* C15: a name is in a handle's method table, and call / callMethod for it
\* succeeds, exactly when the interface declares a pure or view function of
\* that name; and no operation changes the table of an existing handle.
C15_ReadOnlyTable ==
    /\ [](/\ \A i \in 1..Len(builders) : \A name \in AllNames :
                 HasMethod(builders[i]._callMethods, name) <=> DeclaredReadOnly(name)
          /\ lastOp.op \in {"call", "callMethod"} =>
                 (lastOp.ok <=> DeclaredReadOnly(lastOp.name)))
    /\ [][\A i \in 1..Len(builders) :
              builders'[i]._callMethods = builders[i]._callMethods]_vars

\* callMethod refused a declared function that changes state, on a handle
\* made by call(); a pure function was queued before
C15_Witness ==
    /\ lastOp.op = "callMethod" /\ lastOp.name = "transfer" /\ ~lastOp.ok
    /\ lastOp.receiver > 1
    /\ \E k \in 1..Len(builders[lastOp.receiver]._callChain) :
          builders[lastOp.receiver]._callChain[k].name = "getReserves"

\* C16: every descriptor made by callMethod(), and every descriptor in the
\* chain of any builder, carries as many parameters as its method declares
\* input types.
C16_ParamsMatchInputs ==
    /\ \A k \in 1..Len(lastOp.made) :
          Len(lastOp.made[k].params) = Len(lastOp.made[k].inputs)
    /\ \A i \in 1..Len(builders) : \A k \in 1..Len(builders[i]._callChain) :
          Len(builders[i]._callChain[k].params) = Len(builders[i]._callChain[k].inputs)

(***************************************************************************)
(* Claims about balanceOfBatch, checked under SpecBatch.                   *)
(***************************************************************************)
\* C8: with and without an aggregator balanceOfBatch returns the same list:
\* one entry per owner, entry i being {owner: owners[i], balance: the balance
\* of owners[i]}.
C8_FallbackEquivalence ==
    /\ bbMulti.state # "raised" /\ bbSingle.state # "raised"
    /\ \A run \in {bbMulti, bbSingle} :
          run.state = "returned" =>
              /\ Len(run.list) = Len(bbOwners)
              /\ \A i \in 1..Len(bbOwners) :
                    /\ run.list[i].owner = bbOwners[i]
                    /\ run.list[i].balance =
                          [bare |-> TRUE,
                           vals |-> <<UintV(ChainBalance(TokenAddress, bbOwners[i]))>>]
    /\ (bbMulti.state = "returned" /\ bbSingle.state = "returned") =>
          bbMulti.list = bbSingle.list

\* both runs done on a list longer than one batch, with repeated owners
C8_Witness ==
    /\ bbMulti.state = "returned" /\ bbSingle.state = "returned"
    /\ Len(bbOwners) > DefaultBatchSize + 1
    /\ \E i, j \in 1..Len(bbOwners) : i # j /\ bbOwners[i] = bbOwners[j]
    /\ \E i, j \in 1..Len(bbOwners) : bbOwners[i] # bbOwners[j]

(***************************************************************************)
(* Claims about MulticallProvider.create and the registry, checked under   *)
(* SpecRegistry.                                                           *)
(***************************************************************************)
\* the network id a create() works with: the one given, else the provider's
NetworkOf(op) == IF op.chainId # 0 THEN op.chainId ELSE op.network

\* whether create() can come by a network id at all
Determinable(op) == op.chainId # 0 \/ op.kind \in {"signer", "provider"}

\* C11: create() uses the explicit address whenever one is given, whatever the
\* registry holds; otherwise the registry entry of the resolved network; and it
\* fails with 'Unknown multicall address' exactly when no address is given and
\* the registry has no entry for that network.
C11_AddressResolution ==
    regLast.op = "create" =>
        LET supplied == regLast.multicallAddress # NoAddress
            entry == multicallAddresses[NetworkOf(regLast)]
        IN  /\ (Determinable(regLast) /\ supplied) =>
                  /\ regLast.ok
                  /\ providers[Len(providers)] =
                        [chainId |-> NetworkOf(regLast),
                         multicallAddress |-> regLast.multicallAddress]
            /\ (Determinable(regLast) /\ ~supplied /\ entry # NoAddress) =>
                  /\ regLast.ok
                  /\ providers[Len(providers)] =
                        [chainId |-> NetworkOf(regLast), multicallAddress |-> entry]
            /\ (~regLast.ok /\ regLast.error = ErrUnknownMulticall) <=>
                  (Determinable(regLast) /\ ~supplied /\ entry = NoAddress)

\* an explicit address on a network whose registry entry is another address
C11_Witness ==
    /\ regLast.op = "create" /\ regLast.ok
    /\ regLast.multicallAddress # NoAddress
    /\ multicallAddresses[NetworkOf(regLast)] \notin {NoAddress, regLast.multicallAddress}
    /\ providers[Len(providers)].multicallAddress = regLast.multicallAddress

\* C14: registerMulticallAddress(c, a) sets the entry of c to a and leaves every
\* other entry and every existing aggregator as they were; nothing else writes
\* the registry; and a later create() without an explicit address takes the
\* entry the registry then holds, while the aggregators built before keep theirs.
C14_RegistrationFrame ==
    [][ /\ regLast'.op = "register" =>
              /\ multicallAddresses'[regLast'.chainId] = regLast'.multicallAddress
              /\ \A c \in ChainIds \ {regLast'.chainId} :
                    multicallAddresses'[c] = multicallAddresses[c]
              /\ providers' = providers
        /\ regLast'.op = "create" =>
              /\ multicallAddresses' = multicallAddresses
              /\ Len(providers') >= Len(providers)
              /\ \A i \in 1..Len(providers) : providers'[i] = providers[i]
              /\ (regLast'.ok /\ regLast'.multicallAddress = NoAddress
                  /\ Len(providers') > Len(providers)) =>
                    providers'[Len(providers')].multicallAddress =
                        multicallAddresses[NetworkOf(regLast')] ]_vars

\* a seeded entry was overridden between the creation of two aggregators for
\* the same network: the first keeps the seeded address, the second has the
\* registered one, and the other seeded entry is untouched
C14_Witness ==
    /\ Len(providers) = 2
    /\ providers[1].chainId = 1 /\ providers[2].chainId = 1
    /\ providers[1].multicallAddress = SeededAddresses[1]
    /\ providers[2].multicallAddress \in CallerAddresses
    /\ regLast.op = "create" /\ regLast.multicallAddress = NoAddress
    /\ multicallAddresses[1] = providers[2].multicallAddress
    /\ multicallAddresses[5] = SeededAddresses[5]

(***************************************************************************)
(* Claims about the one-call-per-owner path, checked under SpecFanOut.     *)
(***************************************************************************)
\* C13: on the path without an aggregator every owner's balanceOf call has
\* been issued, in owner order, before the first of them completes; and
\* whatever the order of completion, the returned list has one entry per owner
\* with, at index i, owners[i] and the balance of owners[i].
C13_FanOutKeepsOrder ==
    /\ fanPc # "idle" =>
          /\ Len(promises) = Len(fanOwners)
          /\ \A i \in 1..Len(fanOwners) : promises[i].owner = fanOwners[i]
          /\ \A k \in 1..Len(settled) : promises[settled[k]].state # "pending"
    /\ fanPc = "returned" =>
          /\ fanResult.state = "returned"
          /\ Len(fanResult.list) = Len(fanOwners)
          /\ \A i \in 1..Len(fanOwners) :
                /\ fanResult.list[i].owner = fanOwners[i]
                /\ fanResult.list[i].balance =
                      [bare |-> TRUE,
                       vals |-> <<UintV(ChainBalance(TokenAddress, fanOwners[i]))>>]

\* three different owners whose calls completed in reverse order
C13_Witness ==
    /\ fanPc = "returned"
    /\ Len(fanOwners) = 3 /\ Cardinality({fanOwners[i] : i \in 1..3}) = 3
    /\ settled = <<3, 2, 1>>

(***************************************************************************)
(* Claims about ABI.encode, checked under SpecABI.                         *)
(***************************************************************************)
\* C20: two encodings for the same name and input types that both succeed
\* start with the same four bytes, whatever the two parameter lists are, and
\* those bytes are the selector of name(inputTypes).
C20_SelectorIgnoresParams ==
    (abiOut # << >> /\ abiOut[1].ok /\ abiOut[2].ok) =>
        /\ FirstFourBytes(abiOut[1]) = FirstFourBytes(abiOut[2])
        /\ FirstFourBytes(abiOut[1]) =
              Selector(getFunctionSignature(abiIn.name, abiIn.inputs))

\* transfer(address,string) encoded for two parameter lists whose arguments
\* differ in value and in encoded length
C20_Witness ==
    /\ abiOut # << >> /\ abiOut[1].ok /\ abiOut[2].ok
    /\ abiIn.name = "transfer" /\ abiIn.inputs = <<AddressT, StringT>>
    /\ abiIn.p1[1] # abiIn.p2[1]
    /\ Len(abiOut[1].args) # Len(abiOut[2].args)

(***************************************************************************)
(* Claims about the signature string, checked under SpecSignature.         *)
(***************************************************************************)
RECURSIVE C21_CommaJoined(_)
C21_CommaJoined(parts) ==
    IF Len(parts) = 0 THEN ""
    ELSE IF Len(parts) = 1 THEN parts[1]
    ELSE C21_CommaJoined(SubSeq(parts, 1, Len(parts) - 1)) \o "," \o parts[Len(parts)]

RECURSIVE C21_Rendering(_)
C21_Rendering(input) ==
    LET tuple == "(" \o C21_CommaJoined([i \in 1..Len(input.components) |->
                                            C21_Rendering(input.components[i])]) \o ")"
    IN  CASE input.type = "tuple" -> tuple
          [] input.type = "tuple[]" -> tuple \o "[]"
          [] OTHER -> input.type

\* C21: the signature string is name(t1,...,tn), where a tuple input is
\* rendered as the parenthesised, comma-joined renderings of its components,
\* a tuple-array input as that followed by '[]', and any other input by its
\* type string, at every nesting depth.
C21_NestedSignature ==
    abiOut # << >> =>
        abiOut[1] = abiIn.name \o "("
                    \o C21_CommaJoined([i \in 1..Len(abiIn.inputs) |->
                                           C21_Rendering(abiIn.inputs[i])])
                    \o ")"

\* a signature was built for a tuple array that holds a tuple that holds a
\* tuple array, next to a second input
C21_Witness ==
    /\ abiOut # << >>
    /\ Len(abiIn.inputs) = 2
    /\ \E i \in 1..2 :
          /\ abiIn.inputs[i].type = "tuple[]"
          /\ \E j \in 1..Len(abiIn.inputs[i].components) :
                /\ abiIn.inputs[i].components[j].type = "tuple"
                /\ Len(abiIn.inputs[i].components) = 2
                /\ \E k \in 1..Len(abiIn.inputs[i].components[j].components) :
                      abiIn.inputs[i].components[j].components[k].type = "tuple[]"

\* C23: every attempt of one retryCall invocation, retries included, invokes
\* the wrapped function with the parameter list that was passed to retryCall.
C23_SameParamsEveryAttempt ==
    \A i \in 1..Len(rcAttempts) : rcAttempts[i].params = rcAttempts[1].params

(***************************************************************************)
(* retryCall under the scheduling of the event loop: a settled promise and *)
(* an expired timer run their continuation.                                *)
(***************************************************************************)
SpecRetryFair ==
    Spec /\ WF_vars(RcSettle) /\ WF_vars(RcWake) /\ WF_vars(AggResume) /\ WF_vars(AggFail)

\* C24: once retryCall waits after a transient failure, it eventually returns,
\* unless an attempt fails permanently or the attempts of the model run out.
C24_TransientThenSuccessReturns ==
    (rcFunc.isFunction /\ rcPc = "sleeping" /\ Len(rcAttempts) < MaxAttempts)
        ~> \/ rcPc = "returned"
           \/ \E i \in 1..Len(rcAttempts) :
                 Failed(rcAttempts[i]) /\ PermanentText(rcAttempts[i].error)
           \/ Len(rcAttempts) >= MaxAttempts

(***************************************************************************)
(* Claims about chains of calls and tokenMetadata, checked under SpecToken. *)
(***************************************************************************)
\* the request a zero-argument call of the named method at the address makes
C22_RequestFor(address, name) ==
    [target |-> address,
     callData |-> [selector |-> Selector(name \o "()"), args |-> << >>]]

\* what the named method reads on-chain at the address
C22_OnChain(address, name) ==
    [bare |-> TRUE,
     vals |-> <<CASE name = "symbol" -> StringV(ChainSymbol(address))
                  [] name = "name" -> StringV(ChainToken(address).name)
                  [] name = "decimals" ->
                        [kind |-> "uint8", w |-> <<ChainToken(address).decimals>>]
                  [] OTHER -> UintV(ChainToken(address).totalSupply)>>]

\* C22: exec() on a chain built by call(a).call(b).call(c) hands the
\* aggregator the requests of a, b, c in append order, each aimed at the
\* handle's own address, and returns their results in that order; and
\* tokenMetadata() returns the same object with and without a multicall
\* provider, its address being the handle's address.
C22_ChainInOrder ==
    /\ tkExec.state = "returned" =>
          /\ Flatten(tkExec.handed) =
                [i \in 1..Len(tkExec.names) |->
                    C22_RequestFor(tkExec.address, tkExec.names[i])]
          /\ tkExec.result = [i \in 1..Len(tkExec.names) |->
                                 C22_OnChain(tkExec.address, tkExec.names[i])]
    /\ tkExec.state = "raised" => tkExec.names = << >>
    /\ tkMulti.state \in {"none", "returned"}
    /\ tkMulti.state = "returned" =>
          /\ tkMulti.value[1].address = tkMulti.address
          /\ tkMulti.value[1].symbol = C22_OnChain(tkMulti.address, "symbol")
          /\ tkMulti.value[1].name = C22_OnChain(tkMulti.address, "name")
          /\ tkMulti.value[1].decimals = C22_OnChain(tkMulti.address, "decimals")
          /\ tkMulti.value[1].totalSupply = C22_OnChain(tkMulti.address, "totalSupply")
    /\ (tkMulti.state = "returned" /\ tkSingle.state = "returned"
        /\ tkMulti.address = tkSingle.address) => tkMulti.value = tkSingle.value

\* a chain of three different calls was executed, and tokenMetadata() has
\* returned on both branches for one address
C22_Witness ==
    /\ tkExec.state = "returned" /\ tkExec.names = <<"name", "totalSupply", "symbol">>
    /\ tkMulti.state = "returned" /\ tkSingle.state = "returned"
    /\ tkMulti.address = tkSingle.address

(***************************************************************************)
(* Claims about ERC721.holders, checked under SpecHolders.                 *)
(***************************************************************************)
\* a returned Map as the set of its entries
C25_Entries(r) == {r.list[k] : k \in 1..Len(r.list)}

\* C25: holders() with an aggregator and holders() without one return, for
\* the same ownership, the same mapping: the same holder keys and for each
\* holder the same token ids in the same order.
C25_HoldersEquivalent ==
    (hdMulti.state = "returned" /\ hdSingle.state = "returned") =>
        C25_Entries(hdMulti) = C25_Entries(hdSingle)

(***************************************************************************)
(* Claims about aggregate() on a growing chain, checked under SpecChain.   *)
(***************************************************************************)
\* C26: all results returned by one aggregate() invocation were evaluated at
\* one and the same block height.
C26_OneBlockHeight ==
    aggPc = "done" =>
        \A i \in 1..Len(evaluatedAt), j \in 1..Len(evaluatedAt) :
            evaluatedAt[i] = evaluatedAt[j]

(***************************************************************************)
(* Claims about the batch size, checked under SpecAnySize.                 *)
(***************************************************************************)
\* C27: aggregate() ends after finitely many aggregator requests, batch size
\* 0 included: every request leaves fewer calls to send than there were
\* before it.
C27_EachRequestConsumesCalls ==
    [][Len(dispatched') > Len(dispatched) =>
          Len(callRequests') < (IF aggPc = "idle" THEN Len(calls') ELSE Len(callRequests))]_vars

(***************************************************************************)
(* Claims about loadContract, checked under SpecLoad.                      *)
(***************************************************************************)
\* whether create() can resolve an aggregator for the provider
C28_Resolvable(registry, kind, network) ==
    kind \in {"signer", "provider"} /\ registry[network] # NoAddress

\* C28: loadContract with a provider that is not a MulticallProvider never
\* fails with the unknown-aggregator error; it returns a handle without a
\* multicall provider when no aggregator is resolvable, and a handle with the
\* resolved one when one is.
C28_LoadNeverUnknownAggregator ==
    [][(loaded' # loaded /\ loaded'.kind # "multicall") =>
          /\ loaded'.error # ErrUnknownMulticall
          /\ loaded'.error # ErrNoChainId
          /\ loaded'.state = "returned" =>
                IF C28_Resolvable(multicallAddresses, loaded'.kind, loaded'.network)
                THEN loaded'.multicallProvider = multicallAddresses[loaded'.network]
                ELSE loaded'.multicallProvider = NoAddress]_vars

\* a contract was loaded through a signer on a network without a registered
\* aggregator
C28_Witness ==
    /\ loaded.state = "returned" /\ loaded.kind = "signer"
    /\ multicallAddresses[loaded.network] = NoAddress
    /\ loaded.multicallProvider = NoAddress

\* a contract was loaded through a provider on a network whose aggregator was
\* registered by the caller
C28_WitnessResolved ==
    /\ loaded.state = "returned" /\ loaded.kind = "provider"
    /\ loaded.multicallProvider \in CallerAddresses

(***************************************************************************)
(* Claims about IPFSGatewayHelper.fetch, checked under SpecFetch.          *)
(***************************************************************************)
\* the HTTP requests issued so far
C29_Requests == Len(fetchStatuses) + (IF fetchPc = "requesting" THEN 1 ELSE 0)

C29_Retryable(status) == status = 429 \/ status \in 500..599

C29_Bounded ==
    /\ C29_Requests <= fetchGiven + 1
    /\ fetchPc # "idle" => fetchNow = (C29_Requests - 1) * FetchDelay
    \* every response but the last was retryable
    /\ \A i \in 1..(Len(fetchStatuses) - 1) : C29_Retryable(fetchStatuses[i])
    /\ Len(fetchStatuses) > 0 =>
          LET last == fetchStatuses[Len(fetchStatuses)]
              retry == C29_Retryable(last) /\ Len(fetchStatuses) <= fetchGiven
          IN  /\ (last \in 200..299) => fetchPc = "returned"
              /\ (last \notin 200..299 /\ last # 0 /\ retry) =>
                    fetchPc \in {"sleeping", "requesting"}
              /\ (last \notin 200..299 /\ last # 0 /\ ~retry) =>
                    fetchPc = "raised" /\ fetchError = <<last, StatusText(last)>>

\* C29: fetch() issues at most retries + 1 requests, retries one second
\* after a 429 or 5xx response while retries remain, fails at once with
\* '<status>: <statusText>' on any other non-OK status or when the retries are
\* used up, and always ends.
C29_FetchTerminates ==
    /\ []C29_Bounded
    /\ (fetchPc = "requesting") ~> (fetchPc \in {"returned", "raised"})

\* the default of three retries was used up: four requests, three seconds of
\* sleep, and the error of the last response
C29_Witness ==
    /\ fetchGiven = DefaultRetries /\ fetchPc = "raised"
    /\ fetchStatuses = <<429, 500, 599, 429>>
    /\ fetchNow = 3 * FetchDelay

(***************************************************************************)
(* Claims about the controller's events, checked under SpecController.     *)
(***************************************************************************)
\* C30: disconnect(code, message) called while the controller is connected,
\* through a wallet or through the modal, emits exactly one 'disconnect'
\* event with that code and message and leaves the controller not connected;
\* called while it is not connected it emits nothing.
C30_DisconnectEmitsOnce ==
    ctlLast.op = "disconnect" =>
        /\ ~(wallet \/ web3Provider)
        /\ ctlLast.events = IF ctlLast.connected
                            THEN <<[name |-> "disconnect", code |-> ctlLast.code,
                                    message |-> ctlLast.message]>>
                            ELSE << >>

====
